---------------------------- MODULE Spec2Model ----------------------------
(***************************************************************************)
(* A model of the Perplexity MCP servers: the filter validator of the      *)
(* filter generation of the stdio server (validateDateFilters and          *)
(* validateFilters), one tool invocation of the current server             *)
(* (src/src/server.ts: the tool handlers, performChatCompletion,           *)
(* consumeSSEStream, performSearch), and the search result formatter of    *)
(* the current server and of the search server.                            *)
(*                                                                         *)
(* A JavaScript string is a sequence of one-character strings, so that     *)
(* the regular expressions and startsWith of the source are computed on    *)
(* the characters.  The value undefined is the one-element sequence        *)
(* <<"undefined">>, which is no string (its element is not a character).   *)
(***************************************************************************)
EXTENDS Integers, Sequences, FiniteSets, TLC

VARIABLES
  filters,    \* the FilterOptions object handed to the validator
  validator,  \* SpecFilter: which validator ran ("none" before it ran)
  verdict,    \* SpecFilter: what the validator did: Ok or the Error it threw
  tool,       \* the tool invoked: perplexity_ask, _research, _reason or _search
  args,       \* the arguments of the tool call, as the handler receives them
  env,        \* the process environment: the API key and PERPLEXITY_TIMEOUT_MS
  pc,         \* where the invocation is: idle, fetching, errorBody, jsonBody,
              \* streaming, returned or thrown
  timeoutMs,  \* TIMEOUT_MS of the call (0 before it is read)
  body,       \* the outbound request body (NoBody before it is built)
  posts,      \* the number of POST requests issued
  timer,      \* the timeout timer: none, pending, cleared or fired
  aborted,    \* controller.signal.aborted
  response,   \* the Response fetch resolved with (NoResponse before)
  reads,      \* the chunks consumeSSEStream has read, in the order of arrival
  acc,        \* the locals of consumeSSEStream: buffer, contentParts, metadata
  result,     \* how the invocation ended: the returned text or the thrown Error
  request,    \* the HTTP request the search server received (NoRequest: none)
  reply,      \* the HTTP reply the search server sent (NoReply: none yet)
  loaded,     \* the constants the module read from the environment when it loaded
  calls,      \* SpecConfig: the number of calls made since the module loaded
  dispatched, \* SpecConfig: the configuration the latest call went out with
  invocations, \* SpecConcurrent: the locals of each invocation in flight
  stripped    \* SpecStrip: a content and what stripThinkingTokens made of it, in turn

fvars == <<filters, validator, verdict>>
hvars == <<request, reply>>
evars == <<loaded, calls, dispatched, invocations, stripped>>
cvars == <<tool, args, env, pc, timeoutMs, body, posts, timer, aborted, response,
           reads, acc, result, request, reply, loaded, calls, dispatched, invocations,
          stripped>>
vars == <<filters, validator, verdict, tool, args, env, pc, timeoutMs, body, posts,
          timer, aborted, response, reads, acc, result, request, reply, loaded, calls,
          dispatched, invocations,
          stripped>>

-----------------------------------------------------------------------------
(* JavaScript values *)

Undefined == <<"undefined">>
NoList == <<Undefined>>      \* an absent (undefined) array argument

\* JavaScript truthiness of a string-or-undefined value: "" and undefined are falsy.
Truthy(s) == s # Undefined /\ s # <<>>

Digits == {"0", "1", "2", "3", "4", "5", "6", "7", "8", "9"}
Digits19 == Digits \ {"0"}

\* String.prototype.startsWith for a one-character prefix.
startsWith(s, c) == Len(s) >= 1 /\ s[1] = c

\* String.prototype.trim: leading and trailing white space removed.
WhiteSpace == {" ", "\n", "\r", "\t"}
RECURSIVE trimStart(_)
trimStart(s) == IF s # <<>> /\ Head(s) \in WhiteSpace THEN trimStart(Tail(s)) ELSE s
RECURSIVE trimEnd(_)
trimEnd(s) == IF s # <<>> /\ s[Len(s)] \in WhiteSpace
              THEN trimEnd(SubSeq(s, 1, Len(s) - 1)) ELSE s
trim(s) == trimEnd(trimStart(s))

\* s.startsWith(prefix) for a prefix of any length.
hasPrefix(s, prefix) == Len(s) >= Len(prefix) /\ SubSeq(s, 1, Len(prefix)) = prefix

\* s.indexOf(t), 1-based; 0 when t does not occur in s.
indexOf(s, t) ==
  LET hits == {i \in 1..(Len(s) - Len(t) + 1) : SubSeq(s, i, i + Len(t) - 1) = t}
  IN IF hits = {} THEN 0 ELSE CHOOSE i \in hits : \A j \in hits : i <= j

\* s.split("\n"): the pieces between the newlines, at least one piece.
RECURSIVE splitLines(_)
splitLines(s) ==
  LET i == indexOf(s, <<"\n">>)
  IN IF i = 0 THEN <<s>>
     ELSE <<SubSeq(s, 1, i - 1)>> \o splitLines(SubSeq(s, i + 1, Len(s)))

\* The decimal value of a string of digits.
DigitChars == <<"0", "1", "2", "3", "4", "5", "6", "7", "8", "9">>
DigitVal(c) == (CHOOSE n \in 1..10 : DigitChars[n] = c) - 1
RECURSIVE NumVal(_)
NumVal(s) == IF s = <<>> THEN 0
             ELSE 10 * NumVal(SubSeq(s, 1, Len(s) - 1)) + DigitVal(s[Len(s)])

\* parseInt(s, 10) of a string that starts with a digit: the value of its leading digits.
RECURSIVE leadingDigits(_)
leadingDigits(s) == IF s # <<>> /\ Head(s) \in Digits
                    THEN <<Head(s)>> \o leadingDigits(Tail(s)) ELSE <<>>
parseInt(s) == NumVal(leadingDigits(s))

\* A value that may be absent: an omitted key of an object, an unset variable.
Omitted == [t |-> "omitted"]
Field(v) == [t |-> "value", v |-> v]

-----------------------------------------------------------------------------
(* The date pattern  /^(0?[1-9]|1[0-2])\/(0?[1-9]|[12][0-9]|3[01])\/[0-9]{4}$/ *)

\* (0?[1-9]|1[0-2]) matched at position i: the positions right after a match.
MonthGroup(s, i) ==
  {j \in {i + 1, i + 2} :
     /\ j - 1 <= Len(s)
     /\ \/ j = i + 1 /\ s[i] \in Digits19
        \/ j = i + 2 /\ s[i] = "0" /\ s[i + 1] \in Digits19
        \/ j = i + 2 /\ s[i] = "1" /\ s[i + 1] \in {"0", "1", "2"}}

\* The day group written 3[0-2]: it lets the day 32 through.
DayGroup_Day32(s, i) ==
  {j \in {i + 1, i + 2} :
     /\ j - 1 <= Len(s)
     /\ \/ j = i + 1 /\ s[i] \in Digits19
        \/ j = i + 2 /\ s[i] = "0" /\ s[i + 1] \in Digits19
        \/ j = i + 2 /\ s[i] \in {"1", "2"} /\ s[i + 1] \in Digits
        \/ j = i + 2 /\ s[i] = "3" /\ s[i + 1] \in {"0", "1", "2"}}

\* (0?[1-9]|[12][0-9]|3[01]) matched at position i: the positions right after a match.
DayGroup(s, i) ==
  {j \in {i + 1, i + 2} :
     /\ j - 1 <= Len(s)
     /\ \/ j = i + 1 /\ s[i] \in Digits19
        \/ j = i + 2 /\ s[i] = "0" /\ s[i + 1] \in Digits19
        \/ j = i + 2 /\ s[i] \in {"1", "2"} /\ s[i + 1] \in Digits
        \/ j = i + 2 /\ s[i] = "3" /\ s[i + 1] \in {"0", "1"}}

\* dateRegex.test(s): anchored at both ends, no flags.
dateRegexTest(s) ==
  \E j \in MonthGroup(s, 1) :
    /\ j <= Len(s) /\ s[j] = "/"
    /\ \E k \in DayGroup(s, j + 1) :
         /\ k <= Len(s) /\ s[k] = "/"
         /\ Len(s) = k + 4
         /\ \A p \in (k + 1)..(k + 4) : s[p] \in Digits

-----------------------------------------------------------------------------
(* The errors the validators throw, by the message of the Error *)

Ok == [kind |-> "ok", field |-> "none"]
\* "<field> must be in M/D/YYYY format (e.g., ...)"
BadDateFormat(field) == [kind |-> "BadDateFormat", field |-> field]
\* "search_recency_filter cannot be combined with other date filters"
ConflictingFilters == [kind |-> "ConflictingFilters", field |-> "none"]
\* "search_domain_filter can contain a maximum of 20 domains/URLs"
TooManyDomains == [kind |-> "TooManyDomains", field |-> "none"]
\* "search_domain_filter cannot mix allowlist and denylist modes. ..."
MixedDomainMode == [kind |-> "MixedDomainMode", field |-> "none"]

DateFields == <<"search_after_date_filter", "search_before_date_filter",
                "last_updated_after_filter", "last_updated_before_filter">>

MaxDomains == 20

\* The four format checks, in the order of the source: the first that fails throws.
RECURSIVE DateFormatCheck(_, _)
DateFormatCheck(f, n) ==
  IF n > Len(DateFields) THEN Ok
  ELSE IF Truthy(f[DateFields[n]]) /\ ~dateRegexTest(f[DateFields[n]])
       THEN BadDateFormat(DateFields[n])
       ELSE DateFormatCheck(f, n + 1)

\* The conflict check with last_updated_before_filter left out of the disjunction.
RecencyConflict_ThreeFields(f) ==
  /\ Truthy(f.search_recency_filter)
  /\ \/ Truthy(f.search_after_date_filter)
     \/ Truthy(f.search_before_date_filter)
     \/ Truthy(f.last_updated_after_filter)

\* if (filters.search_recency_filter && (after || before || updated_after || updated_before))
RecencyConflict(f) ==
  /\ Truthy(f.search_recency_filter)
  /\ \/ Truthy(f.search_after_date_filter)
     \/ Truthy(f.search_before_date_filter)
     \/ Truthy(f.last_updated_after_filter)
     \/ Truthy(f.last_updated_before_filter)

hasAllowlist(list) == \E i \in 1..Len(list) : ~startsWith(list[i], "-")
hasDenylist(list) == \E i \in 1..Len(list) : startsWith(list[i], "-")

\* The domain checks with the limit compared by >= : a list of exactly 20 is refused.
DomainCheck_OffByOne(f) ==
  IF f.search_domain_filter = NoList THEN Ok
  ELSE IF Len(f.search_domain_filter) >= MaxDomains THEN TooManyDomains
  ELSE IF hasAllowlist(f.search_domain_filter) /\ hasDenylist(f.search_domain_filter)
       THEN MixedDomainMode
       ELSE Ok

\* if (filters.search_domain_filter) { length > 20 ... mixed ... }; an array is truthy.
DomainCheck(f) ==
  IF f.search_domain_filter = NoList THEN Ok
  ELSE IF Len(f.search_domain_filter) > MaxDomains THEN TooManyDomains
  ELSE IF hasAllowlist(f.search_domain_filter) /\ hasDenylist(f.search_domain_filter)
       THEN MixedDomainMode
       ELSE Ok

\* validateDateFilters of the date-filter generation: no domain filter yet.
validateDateFilters(f) ==
  IF DateFormatCheck(f, 1) # Ok THEN DateFormatCheck(f, 1)
  ELSE IF RecencyConflict(f) THEN ConflictingFilters
  ELSE Ok

\* validateFilters of the date+domain filter generation.
validateFilters(f) ==
  IF DateFormatCheck(f, 1) # Ok THEN DateFormatCheck(f, 1)
  ELSE IF RecencyConflict(f) THEN ConflictingFilters
  ELSE DomainCheck(f)

-----------------------------------------------------------------------------
(* One tool invocation of the current server (src/src/server.ts): its values *)

DefaultTimeoutMs == 300000

NoBody == [t |-> "none"]
\* No response head has arrived; json is the parsed body, bodyRead the outcome of
\* response.text() ("none": not read).
NoResponse == [t |-> "none", status |-> 0, statusText |-> <<>>,
               json |-> [t |-> "missing"], bodyRead |-> "none"]
ResponseHead(status, statusText) ==
  [NoResponse EXCEPT !.t = "response", !.status = status, !.statusText = statusText]
NoError == [kind |-> "none", status |-> 0, statusText |-> <<>>, bodyText |-> <<>>,
            timeoutMs |-> 0, cause |-> <<>>, index |-> 0]
NoResult == [kind |-> "none", text |-> <<>>, error |-> NoError]
Returned(text) == [kind |-> "ok", text |-> text, error |-> NoError]
Thrown(err) == [kind |-> "error", text |-> <<>>, error |-> err]

\* The Errors of performChatCompletion and performSearch, by their messages.
\* "PERPLEXITY_API_KEY environment variable is required"
ConfigError == [NoError EXCEPT !.kind = "ConfigError"]
\* "Request timeout: Perplexity API did not respond within ${TIMEOUT_MS}ms. ..."
TimeoutError(ms) == [NoError EXCEPT !.kind = "Timeout", !.timeoutMs = ms]
\* "Network error while calling Perplexity API: ${error}"
NetworkError(cause) == [NoError EXCEPT !.kind = "NetworkError", !.cause = cause]
\* "Perplexity API error: ${response.status} ${response.statusText}\n${errorText}"
UpstreamError(status, statusText, errorText) ==
  [NoError EXCEPT !.kind = "UpstreamError", !.status = status,
                  !.statusText = statusText, !.bodyText = errorText]
\* "Invalid API response: missing message content"
MissingContent == [NoError EXCEPT !.kind = "MissingContent"]
\* "Invalid API response: missing or empty choices array"
EmptyChoices == [NoError EXCEPT !.kind = "EmptyChoices"]
\* "Failed to parse JSON response from Perplexity API: ${error}"
ParseFailure(cause) == [NoError EXCEPT !.kind = "ParseFailure", !.cause = cause]

\* errorText when response.text() rejects
UnableToParse == <<"U", "n", "a", "b", "l", "e", " ", "t", "o", " ", "p",
    "a", "r", "s", "e", " ", "e", "r", "r", "o", "r", " ", "r", "e", "s",
    "p", "o", "n", "s", "e">>

\* response.ok
ok_Through300(status) == status >= 200 /\ status <= 300
ok(status) == status >= 200 /\ status <= 299

\* The decimal text of a natural number, as a template literal prints it.
RECURSIVE NumText(_)
NumText(n) == IF n < 10 THEN <<DigitChars[n + 1]>>
              ELSE NumText(n \div 10) \o <<DigitChars[(n % 10) + 1]>>

\* Array.prototype.join(""): the strings of a list, one after the other.
RECURSIVE Concat(_)
Concat(list) == IF list = <<>> THEN <<>> ELSE Head(list) \o Concat(Tail(list))

-----------------------------------------------------------------------------
(* stripThinkingTokens: content.replace(/<think>[\s\S]*?<\/think>/g, '').trim() *)

ThinkOpen == <<"<", "t", "h", "i", "n", "k", ">">>
ThinkClose == <<"<", "/", "t", "h", "i", "n", "k", ">">>

\* A removal that takes the leftmost <think> up to the last </think> of the text.
removeThinking_Greedy(s) ==
  LET i == indexOf(s, ThinkOpen)
      closes == {j \in 1..(Len(s) - Len(ThinkClose) + 1) :
                   /\ i # 0
                   /\ j >= i + Len(ThinkOpen)
                   /\ SubSeq(s, j, j + Len(ThinkClose) - 1) = ThinkClose}
  IN IF closes = {} THEN s
     ELSE LET last == CHOOSE j \in closes : \A k \in closes : k <= j
          IN SubSeq(s, 1, i - 1) \o SubSeq(s, last + Len(ThinkClose), Len(s))

\* A removal that takes a <think> with no </think> after it up to the end of the text.
RECURSIVE removeThinking_OpenEnded(_)
removeThinking_OpenEnded(s) ==
  LET i == indexOf(s, ThinkOpen) IN
  IF i = 0 THEN s
  ELSE LET rest == SubSeq(s, i + Len(ThinkOpen), Len(s))
           j == indexOf(rest, ThinkClose)
       IN IF j = 0 THEN SubSeq(s, 1, i - 1)
          ELSE SubSeq(s, 1, i - 1)
                 \o removeThinking_OpenEnded(SubSeq(rest, j + Len(ThinkClose), Len(rest)))

\* The leftmost <think>, up to the first </think> after it, is removed; the scan
\* goes on behind the removed span.
RECURSIVE removeThinking(_)
removeThinking(s) ==
  LET i == indexOf(s, ThinkOpen) IN
  IF i = 0 THEN s
  ELSE LET rest == SubSeq(s, i + Len(ThinkOpen), Len(s))
           j == indexOf(rest, ThinkClose)
       IN IF j = 0 THEN s
          ELSE SubSeq(s, 1, i - 1)
                 \o removeThinking(SubSeq(rest, j + Len(ThinkClose), Len(rest)))

stripThinkingTokens(content) == trim(removeThinking(content))

-----------------------------------------------------------------------------
(* consumeSSEStream: the stream text, line by line *)

\* The JSON text of a chunk object is abbreviated to three characters, {k}: the
\* character k names the object in this table.  Every other text is no JSON object.
NoChunkFields == [id |-> Omitted, model |-> Omitted, created |-> Omitted,
                  citations |-> Omitted, usage |-> Omitted, content |-> Omitted]
Payloads ==
  [k \in {"A", "B", "E", "M", "N", "Z"} |->
     CASE k = "A" -> [NoChunkFields EXCEPT !.content = Field(<<"A">>)]
       [] k = "B" -> [NoChunkFields EXCEPT !.content = Field(<<"B">>)]
       [] k = "E" -> [NoChunkFields EXCEPT !.content = Field(<<>>)]
       [] k = "M" -> [NoChunkFields EXCEPT !.id = Field(<<"i", "1">>),
                        !.model = Field(<<"m", "1">>), !.created = Field(1),
                        !.citations = Field(<<<<"u">>>>), !.usage = Field(1)]
       [] k = "N" -> [NoChunkFields EXCEPT !.id = Field(<<"i", "2">>),
                        !.created = Field(2),
                        !.citations = Field(<<<<"v">>, <<"w">>>>),
                        !.usage = Field(2), !.content = Field(<<"C">>)]
       [] k = "Z" -> [NoChunkFields EXCEPT !.id = Field(<<>>), !.created = Field(0)]]

DataMarker == <<"d", "a", "t", "a", ":">>
DoneToken == <<"[", "D", "O", "N", "E", "]">>

\* JSON.parse(data) returns an object (otherwise it throws, or the reads of the
\* parsed value throw, and the catch skips the line).
isChunkJson(data) ==
  Len(data) = 3 /\ data[1] = "{" /\ data[3] = "}" /\ data[2] \in DOMAIN Payloads

\* if (parsed.x): the key is there and its value is truthy.
truthyString(f) == f # Omitted /\ f.v # <<>>
truthyNumber(f) == f # Omitted /\ f.v # 0
truthyObject(f) == f # Omitted

EmptyAcc == [buffer |-> <<>>, contentParts |-> <<>>, citations |-> Omitted,
             usage |-> Omitted, id |-> Omitted, model |-> Omitted, created |-> Omitted]

\* A loop body that starts the accumulator afresh at a line that is no JSON.
processLine_ClearsOnMalformed(a, line) ==
  LET trimmed == trim(line) IN
  IF trimmed = <<>> \/ ~hasPrefix(trimmed, DataMarker) THEN a
  ELSE LET data == trim(SubSeq(trimmed, Len(DataMarker) + 1, Len(trimmed))) IN
       IF data = DoneToken THEN a
       ELSE IF ~isChunkJson(data) THEN [EmptyAcc EXCEPT !.buffer = a.buffer]
       ELSE LET parsed == Payloads[data[2]] IN
            [a EXCEPT
               !.id = IF truthyString(parsed.id) THEN parsed.id ELSE @,
               !.model = IF truthyString(parsed.model) THEN parsed.model ELSE @,
               !.created = IF truthyNumber(parsed.created) THEN parsed.created ELSE @,
               !.citations = IF truthyObject(parsed.citations) THEN parsed.citations ELSE @,
               !.usage = IF truthyObject(parsed.usage) THEN parsed.usage ELSE @,
               !.contentParts = IF truthyString(parsed.content)
                                THEN Append(@, parsed.content.v) ELSE @]

\* A loop body that adds the citations of an object to those it already holds.
processLine_MergesCitations(a, line) ==
  LET trimmed == trim(line) IN
  IF trimmed = <<>> \/ ~hasPrefix(trimmed, DataMarker) THEN a
  ELSE LET data == trim(SubSeq(trimmed, Len(DataMarker) + 1, Len(trimmed))) IN
       IF data = DoneToken THEN a
       ELSE IF ~isChunkJson(data) THEN a
       ELSE LET parsed == Payloads[data[2]] IN
            [a EXCEPT
               !.id = IF truthyString(parsed.id) THEN parsed.id ELSE @,
               !.model = IF truthyString(parsed.model) THEN parsed.model ELSE @,
               !.created = IF truthyNumber(parsed.created) THEN parsed.created ELSE @,
               !.citations = IF truthyObject(parsed.citations)
                             THEN IF @ = Omitted THEN parsed.citations
                                  ELSE Field(@.v \o parsed.citations.v)
                             ELSE @,
               !.usage = IF truthyObject(parsed.usage) THEN parsed.usage ELSE @,
               !.contentParts = IF truthyString(parsed.content)
                                THEN Append(@, parsed.content.v) ELSE @]

\* The body of the for loop over the complete lines.
processLine(a, line) ==
  LET trimmed == trim(line) IN
  IF trimmed = <<>> \/ ~hasPrefix(trimmed, DataMarker) THEN a
  ELSE LET data == trim(SubSeq(trimmed, Len(DataMarker) + 1, Len(trimmed))) IN
       IF data = DoneToken THEN a
       ELSE IF ~isChunkJson(data) THEN a
       ELSE LET parsed == Payloads[data[2]] IN
            [a EXCEPT
               !.id = IF truthyString(parsed.id) THEN parsed.id ELSE @,
               !.model = IF truthyString(parsed.model) THEN parsed.model ELSE @,
               !.created = IF truthyNumber(parsed.created) THEN parsed.created ELSE @,
               !.citations = IF truthyObject(parsed.citations) THEN parsed.citations ELSE @,
               !.usage = IF truthyObject(parsed.usage) THEN parsed.usage ELSE @,
               !.contentParts = IF truthyString(parsed.content)
                                THEN Append(@, parsed.content.v) ELSE @]

\* A loop that takes the lines of a chunk from the last to the first.
RECURSIVE processLines_LastFirst(_, _)
processLines_LastFirst(a, lines) ==
  IF lines = <<>> THEN a
  ELSE processLines_LastFirst(processLine(a, lines[Len(lines)]),
                              SubSeq(lines, 1, Len(lines) - 1))

RECURSIVE processLines(_, _)
processLines(a, lines) ==
  IF lines = <<>> THEN a ELSE processLines(processLine(a, Head(lines)), Tail(lines))

\* A turn of the loop that keeps nothing of the chunk's last piece.
processChunk_DropsLastPiece(a, chunk) ==
  LET lines == splitLines(a.buffer \o chunk)
      complete == SubSeq(lines, 1, Len(lines) - 1)
  IN processLines([a EXCEPT !.buffer = <<>>], complete)

\* One turn of the while loop for a chunk that was read: the buffer grows by the
\* decoded chunk, the complete lines are processed, the last piece stays buffered.
processChunk(a, chunk) ==
  LET lines == splitLines(a.buffer \o chunk)
      complete == SubSeq(lines, 1, Len(lines) - 1)
  IN processLines([a EXCEPT !.buffer = lines[Len(lines)]], complete)

-----------------------------------------------------------------------------
(* The response bodies and their validation *)

\* A JSON value is a record tagged by its kind; an object carries its keys.
JMissing == [t |-> "missing"]
JNonObject == [t |-> "nonobject"]
JNonList == [t |-> "nonlist"]
JNonString == [t |-> "nonstring"]
JString(v) == [t |-> "string", v |-> v]
JList(v) == [t |-> "list", v |-> v]
JUnparseable == [t |-> "unparseable"]   \* response.json() rejects
JMessage(content) == [t |-> "object", content |-> content]
JChoice(message) == [t |-> "object", message |-> message]
JCompletion(choices, citations, extra) ==
  [t |-> "object", choices |-> choices, citations |-> citations, extra |-> extra]

\* The object consumeSSEStream assembles at the end of the stream.
assembled(a) ==
  [t |-> "object",
   choices |-> JList(<<[t |-> "object",
                        message |-> JMessage(JString(Concat(a.contentParts))),
                        finish_reason |-> "stop", index |-> 0]>>),
   citations |-> IF truthyObject(a.citations) THEN JList(a.citations.v) ELSE JMissing,
   usage |-> IF truthyObject(a.usage) THEN a.usage ELSE Omitted,
   id |-> IF truthyString(a.id) THEN a.id ELSE Omitted,
   model |-> IF truthyString(a.model) THEN a.model ELSE Omitted,
   created |-> IF truthyNumber(a.created) THEN a.created ELSE Omitted,
   extra |-> FALSE]

\* ChatCompletionResponseSchema.parse: the paths of the issues zod reports
\* (the empty set: the value parses).  A non-empty choices list whose first
\* element has a message.content string is required; other keys are not checked.
CompletionIssues(json) ==
  IF json.t # "object" THEN {<<>>}
  ELSE IF json.choices.t # "list" THEN {<<"choices">>}
  ELSE IF Len(json.choices.v) = 0 THEN {<<"choices">>}
  ELSE LET c == json.choices.v[1] IN
       IF c.t # "object" THEN {<<"choices", "0">>}
       ELSE IF c.message.t # "object" THEN {<<"choices", "0", "message">>}
       ELSE IF c.message.content.t # "string"
            THEN {<<"choices", "0", "message", "content">>}
            ELSE {}

\* The texts of the errors of the parse step: of response.json(), of the schema.
SyntaxCause == <<"S", "y", "n", "t", "a", "x", "E", "r", "r", "o", "r">>
ZodCause == <<"Z", "o", "d", "E", "r", "r", "o", "r">>

\* i.path.includes(key)
includes(path, key) == \E n \in 1..Len(path) : path[n] = key

\* The catch of the parse step: a ZodError is classified by the paths of its
\* issues, every other error is a parse failure.
classifyZodError_ChoicesFirst(issues) ==
  IF \E p \in issues : includes(p, "choices")
  THEN EmptyChoices
  ELSE IF \E p \in issues : includes(p, "message") \/ includes(p, "content")
       THEN MissingContent
       ELSE ParseFailure(ZodCause)

classifyZodError(issues) ==
  IF \E p \in issues : includes(p, "message") \/ includes(p, "content")
  THEN MissingContent
  ELSE IF \E p \in issues : includes(p, "choices")
       THEN EmptyChoices
       ELSE ParseFailure(ZodCause)

\* "\n\nCitations:\n"
CitationsHeader == <<"\n", "\n", "C", "i", "t", "a", "t", "i", "o", "n", "s",
    ":", "\n">>

\* data.citations.forEach((citation, index) => messageContent += `[${index + 1}] ${citation}\n`)
RECURSIVE citationLines(_, _)
citationLines(citations, index) ==
  IF index > Len(citations) THEN <<>>
  ELSE <<"[">> \o NumText(index) \o <<"]", " ">> \o citations[index] \o <<"\n">>
         \o citationLines(citations, index + 1)

\* A return value that is stripped after the citations were appended to it.
completionText_StripsLast(data, stripThinking) ==
  LET content == data.choices.v[1].message.content.v
      messageContent ==
        IF data.citations.t = "list" /\ Len(data.citations.v) > 0
        THEN content \o CitationsHeader \o citationLines(data.citations.v, 1)
        ELSE content
  IN IF stripThinking THEN stripThinkingTokens(messageContent) ELSE messageContent

\* What performChatCompletion returns for validated data.
completionText(data, stripThinking) ==
  LET content == data.choices.v[1].message.content.v
      messageContent == IF stripThinking THEN stripThinkingTokens(content) ELSE content
  IN IF data.citations.t = "list" /\ Len(data.citations.v) > 0
     THEN messageContent \o CitationsHeader \o citationLines(data.citations.v, 1)
     ELSE messageContent

-----------------------------------------------------------------------------
(* formatSearchResults *)

JResult(title, url, snippet, date, last_updated) ==
  [title |-> title, url |-> url, snippet |-> snippet, date |-> date,
   last_updated |-> last_updated]
JSearch(results) == [t |-> "object", results |-> results]

NoResultsText == <<"N", "o", " ", "s", "e", "a", "r", "c", "h", " ", "r",
    "e", "s", "u", "l", "t", "s", " ", "f", "o", "u", "n", "d", ".">>
FoundLabel == <<"F", "o", "u", "n", "d", " ">>
ResultsLabel == <<" ", "s", "e", "a", "r", "c", "h", " ", "r", "e", "s", "u",
    "l", "t", "s", ":", "\n", "\n">>
UrlLabel == <<" ", " ", " ", "U", "R", "L", ":", " ">>
Indent == <<" ", " ", " ">>
DateLabel == <<" ", " ", " ", "D", "a", "t", "e", ":", " ">>
LastUpdatedLabel == <<" ", " ", " ", "L", "a", "s", "t", " ", "U", "p", "d",
    "a", "t", "e", "d", ":", " ">>

\* The block with the snippet line printed whether or not there is a snippet.
resultBlock_SnippetAlways(r, index) ==
  NumText(index) \o <<".", " ", "*", "*">> \o r.title \o <<"*", "*", "\n">>
    \o UrlLabel \o r.url \o <<"\n">>
    \o Indent \o (IF r.snippet = Omitted THEN Undefined ELSE r.snippet.v) \o <<"\n">>
    \o (IF truthyString(r.date) THEN DateLabel \o r.date.v \o <<"\n">> ELSE <<>>)
    \o <<"\n">>

\* One result of the current server: title, URL, snippet and date.
resultBlock(r, index) ==
  NumText(index) \o <<".", " ", "*", "*">> \o r.title \o <<"*", "*", "\n">>
    \o UrlLabel \o r.url \o <<"\n">>
    \o (IF truthyString(r.snippet) THEN Indent \o r.snippet.v \o <<"\n">> ELSE <<>>)
    \o (IF truthyString(r.date) THEN DateLabel \o r.date.v \o <<"\n">> ELSE <<>>)
    \o <<"\n">>

\* One result of the private search server: the last update is printed too.
resultBlockSearchServer(r, index) ==
  NumText(index) \o <<".", " ", "*", "*">> \o r.title \o <<"*", "*", "\n">>
    \o UrlLabel \o r.url \o <<"\n">>
    \o (IF truthyString(r.snippet) THEN Indent \o r.snippet.v \o <<"\n">> ELSE <<>>)
    \o (IF truthyString(r.date) THEN DateLabel \o r.date.v \o <<"\n">> ELSE <<>>)
    \o (IF truthyString(r.last_updated)
        THEN LastUpdatedLabel \o r.last_updated.v \o <<"\n">> ELSE <<>>)
    \o <<"\n">>

RECURSIVE resultBlocks(_, _, _)
resultBlocks(results, index, searchServer) ==
  IF index > Len(results) THEN <<>>
  ELSE (IF searchServer THEN resultBlockSearchServer(results[index], index)
        ELSE resultBlock(results[index], index))
         \o resultBlocks(results, index + 1, searchServer)

\* if (!data.results || !Array.isArray(data.results)) return "No search results found."
\* A missing results key and a value that is no array take this exit; an array,
\* the empty one too, is truthy and goes on to the header.
formatSearchResultsOf(data, searchServer) ==
  IF data.results.t # "list" THEN NoResultsText
  ELSE FoundLabel \o NumText(Len(data.results.v)) \o ResultsLabel
         \o resultBlocks(data.results.v, 1, searchServer)

\* formatSearchResults of src/src/server.ts
formatSearchResults(data) == formatSearchResultsOf(data, FALSE)
\* formatSearchResults of src/perplexity-search/server.ts
formatSearchResultsSearchServer(data) == formatSearchResultsOf(data, TRUE)

\* SearchResponseSchema.parse: a missing or non-list results key is let through
\* (the issues are the empty set); only a value that is no object is refused.
SearchIssues(json) == IF json.t # "object" THEN {<<>>} ELSE {}

\* What SearchResponseSchema.parse hands on for a body it accepts: a results
\* list as it is; a missing or non-list results key either left out of the data
\* or replaced by the empty list.
SearchParsed(json) ==
  IF json.results.t = "list" THEN {json}
  ELSE {[json EXCEPT !.results = JMissing], [json EXCEPT !.results = JList(<<>>)]}

-----------------------------------------------------------------------------
(* The arguments of a tool call and the state before the call *)

NoArgs ==
  [messages |-> Omitted, strip_thinking |-> Omitted, search_recency_filter |-> Omitted,
   search_domain_filter |-> Omitted, search_context_size |-> Omitted,
   reasoning_effort |-> Omitted, query |-> Omitted, max_results |-> Omitted,
   max_tokens_per_page |-> Omitted, country |-> Omitted]

\* No HTTP request has reached the search server.
NoRequest == [t |-> "none"]
NoReply ==
  [t |-> "none", status |-> 0, kind |-> "none", code |-> 0, message |-> "none",
   text |-> <<>>, error |-> NoError]
HttpIdle == request = NoRequest /\ reply = NoReply

\* No call was counted and no configuration recorded.
NoConstants == [t |-> "none"]
NoDispatch == [t |-> "none"]
ConfigIdle ==
  /\ loaded = NoConstants /\ calls = 0 /\ dispatched = NoDispatch
  /\ invocations = <<>> /\ stripped = <<>>

\* No invocation has started.
CallIdle ==
  /\ pc = "idle"
  /\ timeoutMs = 0
  /\ body = NoBody
  /\ posts = 0
  /\ timer = "none"
  /\ aborted = FALSE
  /\ response = NoResponse
  /\ reads = <<>>
  /\ acc = EmptyAcc
  /\ result = NoResult

-----------------------------------------------------------------------------
(* The inputs of the validators *)

MaxPartLen == 2      \* month and day texts of the generated dates: 0..MaxPartLen digits
MaxShortList == 2    \* the short domain lists: every list of 0..MaxShortList entries

DigitSample == {"0", "1", "2", "3", "4"}
PartTexts == UNION {[1..n -> DigitSample] : n \in 0..MaxPartLen}
MonthSample == {<<"3">>, <<"0", "3">>, <<"1", "2">>, <<"1", "3">>, <<"0">>}
DaySample == {<<"1">>, <<"0", "1">>, <<"3", "1">>, <<"3", "2">>, <<"0", "0">>}
YearSample == {<<"2", "0", "2", "5">>, <<"2", "5">>, <<"2", "0", "2", "5", "0">>,
               <<"2", "0", "2", "x">>, <<"2", "0", "2", "5", " ">>}
Separators == {<<"/", "/">>, <<"-", "-">>, <<"/", "-">>}

\* month, separator, day, separator, year
DateText(m, d, y, sep) == m \o <<sep[1]>> \o d \o <<sep[2]>> \o y

\* Every month text with the sampled days and every day text with the sampled months,
\* the ISO form 2025-03-01, and a date with a leading blank.
RichDates ==
  {DateText(m, d, y, sep) : m \in PartTexts, d \in DaySample, y \in YearSample, sep \in Separators}
  \cup {DateText(m, d, y, sep) : m \in MonthSample, d \in PartTexts, y \in YearSample, sep \in Separators}
  \cup {<<"2", "0", "2", "5", "-", "0", "3", "-", "0", "1">>,
        <<" ", "3", "/", "1", "/", "2", "0", "2", "5">>}

Date_3_1_2025 == <<"3", "/", "1", "/", "2", "0", "2", "5">>
Date_12_31_2025 == <<"1", "2", "/", "3", "1", "/", "2", "0", "2", "5">>
Date_13_1_2025 == <<"1", "3", "/", "1", "/", "2", "0", "2", "5">>
Date_3_32_2025 == <<"3", "/", "3", "2", "/", "2", "0", "2", "5">>

\* What a date argument can be: absent, the empty string, a well-formed or a malformed date.
FieldSample == {Undefined, <<>>, Date_3_1_2025, Date_13_1_2025}

RecencyValues == {<<"w", "e", "e", "k">>, <<"d", "a", "y">>}

DomainSample == {<<"a">>, <<"-", "a">>, <<>>, <<"a", "-">>}
ShortLists == UNION {[1..n -> DomainSample] : n \in 0..MaxShortList}
\* Lists around the limit: all entries d1 except one entry d2, the first or the last.
LongLists ==
  {[i \in 1..n |-> IF i = (IF first THEN 1 ELSE n) THEN d2 ELSE d1] :
     n \in {MaxDomains - 1, MaxDomains, MaxDomains + 1}, first \in BOOLEAN,
     d1 \in DomainSample, d2 \in DomainSample}
DomainLists == {NoList} \cup ShortLists \cup LongLists

NoFilters ==
  [search_after_date_filter |-> Undefined, search_before_date_filter |-> Undefined,
   last_updated_after_filter |-> Undefined, last_updated_before_filter |-> Undefined,
   search_recency_filter |-> Undefined, search_domain_filter |-> NoList]

\* Every combination of the sampled values of the six fields.
CrossFilters ==
  [search_after_date_filter : FieldSample, search_before_date_filter : FieldSample,
   last_updated_after_filter : FieldSample, last_updated_before_filter : FieldSample,
   search_recency_filter : {Undefined} \cup RecencyValues,
   search_domain_filter : DomainLists]

\* One date field holding a generated date, with or without a recency filter.
SingleDateFilters ==
  {[[NoFilters EXCEPT ![DateFields[n]] = s] EXCEPT !.search_recency_filter = r] :
     n \in 1..Len(DateFields), s \in RichDates, r \in {Undefined, <<"d", "a", "y">>}}

FilterInputs == CrossFilters \cup SingleDateFilters

-----------------------------------------------------------------------------
(* SpecFilter: a validator applied to one FilterOptions object *)

InitFilter ==
  /\ filters \in FilterInputs
  /\ validator = "none"
  /\ verdict = Ok
  /\ tool = "none"
  /\ args = NoArgs
  /\ env = [apiKey |-> TRUE, timeout |-> Undefined]
  /\ CallIdle
  /\ HttpIdle
  /\ ConfigIdle

\* validateFilters(filters) returns or throws.
RunValidateFilters ==
  /\ validator = "none"
  /\ validator' = "validateFilters"
  /\ verdict' = validateFilters(filters)
  /\ UNCHANGED <<filters, cvars>>

\* validateDateFilters(dateFilters) returns or throws; it never reads the domain filter.
RunValidateDateFilters ==
  /\ validator = "none"
  /\ validator' = "validateDateFilters"
  /\ verdict' = validateDateFilters(filters)
  /\ UNCHANGED <<filters, cvars>>

NextFilter == RunValidateFilters \/ RunValidateDateFilters

SpecFilter == InitFilter /\ [][NextFilter]_vars

-----------------------------------------------------------------------------
(* The vocabulary of the claims about the validators, stated without the code *)

AllDigits(s) == \A i \in 1..Len(s) : s[i] \in Digits

SlashPositions(s) == {i \in 1..Len(s) : s[i] = "/"}

\* M/D/YYYY: a 1-2 digit month 1..12, a 1-2 digit day 1..31 and a 4-digit year.
IsMDY(s) ==
  /\ Cardinality(SlashPositions(s)) = 2
  /\ LET a == CHOOSE i \in SlashPositions(s) : \A j \in SlashPositions(s) : i <= j
         b == CHOOSE i \in SlashPositions(s) : \A j \in SlashPositions(s) : i >= j
         m == SubSeq(s, 1, a - 1)
         d == SubSeq(s, a + 1, b - 1)
         y == SubSeq(s, b + 1, Len(s))
     IN /\ AllDigits(m) /\ Len(m) \in 1..2 /\ NumVal(m) \in 1..12
        /\ AllDigits(d) /\ Len(d) \in 1..2 /\ NumVal(d) \in 1..31
        /\ AllDigits(y) /\ Len(y) = 4

Supplied(f, n) == f[DateFields[n]] # Undefined
\* A date string was given and is not the empty string.
NonEmpty(f, n) == Supplied(f, n) /\ f[DateFields[n]] # <<>>
Malformed(f, n) == Supplied(f, n) /\ ~IsMDY(f[DateFields[n]])
DateIndexes == 1..Len(DateFields)

\* Every supplied date string is a well-formed date.
DatesWellFormed(f) == \A n \in DateIndexes : ~Malformed(f, n)
\* recency together with at least one of the four date fields
CombinesRecency(f) ==
  f.search_recency_filter # Undefined /\ \E n \in DateIndexes : Supplied(f, n)

IsMixedList(list) ==
  /\ list # NoList
  /\ \E i, j \in 1..Len(list) :
       /\ Len(list[i]) > 0 /\ list[i][1] = "-"
       /\ (Len(list[j]) = 0 \/ list[j][1] # "-")
DomainsValid(f) ==
  \/ f.search_domain_filter = NoList
  \/ Len(f.search_domain_filter) <= MaxDomains /\ ~IsMixedList(f.search_domain_filter)

ValidFilterSet(f) == DatesWellFormed(f) /\ DomainsValid(f)
Validated == validator # "none"

\* C1 as stated: ok for every valid FilterSet without the combination, and
\* ConflictingFilters for every FilterSet that combines recency with a date field.
C1_AsStated ==
  Validated =>
    /\ (ValidFilterSet(filters) /\ ~CombinesRecency(filters)) => verdict = Ok
    /\ CombinesRecency(filters) => verdict = ConflictingFilters

\* C1 (amended): the validator returns ok for every valid FilterSet that does not
\* combine recency with a date field, and throws ConflictingFilters for every
\* FilterSet that combines recency with a date field and whose supplied date
\* strings are all well-formed: a malformed date is reported first, as
\* BadDateFormat, and an empty date string counts as an absent field.
C1_RecencyConflict ==
  Validated =>
    /\ (ValidFilterSet(filters) /\ ~CombinesRecency(filters)) => verdict = Ok
    /\ (CombinesRecency(filters) /\ DatesWellFormed(filters))
         => verdict = ConflictingFilters

C1_Witness ==
  /\ validator = "validateFilters"
  /\ filters.search_recency_filter # Undefined
  /\ filters.last_updated_before_filter = Date_3_1_2025
  /\ \A n \in 1..3 : ~Supplied(filters, n)
  /\ verdict = ConflictingFilters

\* C2 as stated: each supplied date string that is not M/D/YYYY fails validation
\* with BadDateFormat naming its field, and matching strings pass the format check.
C2_AsStated ==
  Validated =>
    /\ \A n \in DateIndexes :
         Malformed(filters, n) => verdict = BadDateFormat(DateFields[n])
    /\ DatesWellFormed(filters) => verdict.kind # "BadDateFormat"

\* C2 (amended): when some non-empty date string is not M/D/YYYY, validation fails
\* with BadDateFormat naming the first such field in the order search_after,
\* search_before, last_updated_after, last_updated_before; when every non-empty
\* date string matches, no BadDateFormat is raised. An empty string is not checked.
C2_DateFormat ==
  Validated =>
    /\ \A n \in DateIndexes :
         ( /\ NonEmpty(filters, n) /\ Malformed(filters, n)
           /\ \A k \in 1..(n - 1) : ~(NonEmpty(filters, k) /\ Malformed(filters, k)) )
         => verdict = BadDateFormat(DateFields[n])
    /\ (\A n \in DateIndexes : NonEmpty(filters, n) => IsMDY(filters[DateFields[n]]))
         => verdict.kind # "BadDateFormat"

C2_Witness ==
  /\ Validated
  /\ filters.search_before_date_filter = Date_3_32_2025
  /\ verdict = BadDateFormat("search_before_date_filter")

\* The checks that run before the domain checks let the FilterSet through.
DatePartFine(f) == DatesWellFormed(f) /\ ~CombinesRecency(f)

\* C3 as stated: every mixed list fails with MixedDomainMode, pure lists of at
\* most 20 entries pass, and lists of more than 20 entries fail with TooManyDomains.
C3_AsStated ==
  (validator = "validateFilters" /\ DatePartFine(filters)
     /\ filters.search_domain_filter # NoList) =>
    LET list == filters.search_domain_filter IN
    /\ IsMixedList(list) => verdict = MixedDomainMode
    /\ (~IsMixedList(list) /\ Len(list) <= MaxDomains) => verdict = Ok
    /\ Len(list) > MaxDomains => verdict = TooManyDomains

\* C3 (amended): a domain_filter list of at most 20 entries that mixes '-'-prefixed
\* and unprefixed entries fails with MixedDomainMode; a pure allow-list or pure
\* deny-list of at most 20 entries passes; every list of more than 20 entries,
\* mixed or not, fails with TooManyDomains.
C3_DomainFilter ==
  (validator = "validateFilters" /\ DatePartFine(filters)
     /\ filters.search_domain_filter # NoList) =>
    LET list == filters.search_domain_filter IN
    /\ (IsMixedList(list) /\ Len(list) <= MaxDomains) => verdict = MixedDomainMode
    /\ (~IsMixedList(list) /\ Len(list) <= MaxDomains) => verdict = Ok
    /\ Len(list) > MaxDomains => verdict = TooManyDomains

C3_Witness ==
  /\ validator = "validateFilters"
  /\ filters.search_domain_filter # NoList
  /\ Len(filters.search_domain_filter) = MaxDomains
  /\ IsMixedList(filters.search_domain_filter)
  /\ verdict = MixedDomainMode

-----------------------------------------------------------------------------
(* SpecCall: one tool invocation of the current server, src/src/server.ts *)

MaxChunks == 2            \* chunks one stream delivers, at most

DefaultMaxResults == 10
DefaultMaxTokensPerPage == 1024

ChatTools == {"perplexity_ask", "perplexity_research", "perplexity_reason"}
SearchTool == "perplexity_search"

\* The model each handler passes to performChatCompletion.
ModelOf(t) ==
  CASE t = "perplexity_ask" -> "sonar-pro"
    [] t = "perplexity_research" -> "sonar-deep-research"
    [] t = "perplexity_reason" -> "sonar-reasoning-pro"

\* A choice of mode that streams for the reasoning model as well.
useStreaming_ReasoningToo(model) ==
  model \in {"sonar-deep-research", "sonar-reasoning-pro"}
useStreaming(model) == model = "sonar-deep-research"

\* validateMessages(messages, toolName): NoError, or the Error it throws.
\* "Invalid arguments for ${toolName}: 'messages' must be an array"
MessagesNotArray == [NoError EXCEPT !.kind = "InvalidArguments"]
\* "Invalid message at index ${i}: must be an object" / "'role' must be a string" /
\* "'content' must be a string"
InvalidMessage(i, what) ==
  [NoError EXCEPT !.kind = "InvalidMessage", !.index = i, !.cause = what]

messageError(msg, i) ==
  IF msg.t # "object" THEN InvalidMessage(i, <<"o", "b", "j", "e", "c", "t">>)
  ELSE IF msg.role.t # "string" \/ msg.role.v = <<>>
       THEN InvalidMessage(i, <<"r", "o", "l", "e">>)
       ELSE IF msg.content.t # "string"
            THEN InvalidMessage(i, <<"c", "o", "n", "t", "e", "n", "t">>)
            ELSE NoError

RECURSIVE messagesError(_, _)
messagesError(list, n) ==
  IF n > Len(list) THEN NoError
  ELSE IF messageError(list[n], n - 1) # NoError THEN messageError(list[n], n - 1)
       ELSE messagesError(list, n + 1)

validateMessages(messages) ==
  IF messages = Omitted \/ messages.v.t # "list" THEN MessagesNotArray
  ELSE messagesError(messages.v.v, 1)

\* messagesField = z.array(z.object({ role: z.enum([...]), content: z.string() })),
\* the input schema the server registers each completion tool with: NoError, or
\* the refusal of the arguments, with the index of the first message at fault.
Roles == {<<"s", "y", "s", "t", "e", "m">>, <<"u", "s", "e", "r">>,
          <<"a", "s", "s", "i", "s", "t", "a", "n", "t">>}
InvalidInput(i, what) ==
  [NoError EXCEPT !.kind = "InvalidInput", !.index = i, !.cause = what]
messageSchemaIssue_AnyRole(msg) ==
  IF msg.t # "object" THEN <<"o", "b", "j", "e", "c", "t">>
  ELSE IF msg.role.t # "string" THEN <<"r", "o", "l", "e">>
       ELSE IF msg.content.t # "string" THEN <<"c", "o", "n", "t", "e", "n", "t">>
            ELSE <<>>
messageSchemaIssue(msg) ==
  IF msg.t # "object" THEN <<"o", "b", "j", "e", "c", "t">>
  ELSE IF msg.role.t # "string" \/ msg.role.v \notin Roles THEN <<"r", "o", "l", "e">>
       ELSE IF msg.content.t # "string" THEN <<"c", "o", "n", "t", "e", "n", "t">>
            ELSE <<>>
messagesSchema(messages) ==
  IF messages = Omitted \/ messages.v.t # "list"
  THEN InvalidInput(0, <<"a", "r", "r", "a", "y">>)
  ELSE LET list == messages.v.v
           bad == {i \in 1..Len(list) : messageSchemaIssue(list[i]) # <<>>}
       IN IF bad = {} THEN NoError
          ELSE LET first == CHOOSE i \in bad : \A j \in bad : i <= j
               IN InvalidInput(first - 1, messageSchemaIssue(list[first]))

\* ...(x && { x }): the key is set when the argument is truthy.
whenString(f) == IF truthyString(f) THEN f ELSE Omitted
\* A test that takes an empty list for a list that was not given.
whenArray_NonEmpty(f) == IF f # Omitted /\ f.v # <<>> THEN f ELSE Omitted
whenArray(f) == IF truthyObject(f) THEN f ELSE Omitted

\* The options object each handler builds from its arguments.
optionsOf(t, a) ==
  [search_recency_filter |->
     IF t = "perplexity_research" THEN Omitted ELSE whenString(a.search_recency_filter),
   search_domain_filter |->
     IF t = "perplexity_research" THEN Omitted ELSE whenArray(a.search_domain_filter),
   search_context_size |->
     IF t = "perplexity_research" THEN Omitted ELSE whenString(a.search_context_size),
   reasoning_effort |->
     IF t = "perplexity_research" THEN whenString(a.reasoning_effort) ELSE Omitted]

\* typeof strip_thinking === "boolean" ? strip_thinking : false; ask never strips.
stripThinkingOf(t, a) ==
  IF t = "perplexity_ask" \/ a.strip_thinking = Omitted THEN FALSE ELSE a.strip_thinking.v

\* The request body of performChatCompletion.
chatBody(model, messages, options) ==
  [t |-> "chat", model |-> model, messages |-> messages,
   stream |-> IF useStreaming(model) THEN Field(TRUE) ELSE Omitted,
   search_recency_filter |-> whenString(options.search_recency_filter),
   search_domain_filter |-> whenArray(options.search_domain_filter),
   web_search_options |->
     IF truthyString(options.search_context_size)
     THEN Field([search_context_size |-> options.search_context_size.v]) ELSE Omitted,
   reasoning_effort |-> whenString(options.reasoning_effort)]

\* The request body of performSearch, with the defaults of the handler.
searchBody(a) ==
  [t |-> "search", query |-> a.query,
   max_results |-> IF a.max_results # Omitted THEN a.max_results.v ELSE DefaultMaxResults,
   max_tokens_per_page |->
     IF a.max_tokens_per_page # Omitted THEN a.max_tokens_per_page.v
     ELSE DefaultMaxTokensPerPage,
   country |-> whenString(a.country)]

\* parseInt(process.env.PERPLEXITY_TIMEOUT_MS || "300000", 10)
readTimeout(e) == IF Truthy(e.timeout) THEN parseInt(e.timeout) ELSE DefaultTimeoutMs

(* The inputs *)

UserMessage == [t |-> "object", role |-> JString(<<"u", "s", "e", "r">>),
                content |-> JString(<<"q">>)]
SystemMessage == [t |-> "object", role |-> JString(<<"s", "y", "s", "t", "e", "m">>),
                  content |-> JString(<<"s">>)]
EmptyMessage == [t |-> "object", role |-> JString(<<"a", "s", "s", "i", "s", "t", "a", "n", "t">>),
                 content |-> JString(<<>>)]
MessageLists ==
  {Field(JList(<<UserMessage>>)), Field(JList(<<SystemMessage, UserMessage>>)),
   Field(JList(<<UserMessage, EmptyMessage>>))}
\* Lists that the schema or validateMessages refuses.
MalformedLists ==
  {Omitted, Field(JNonList),
   Field(JList(<<UserMessage, JNonObject, [UserMessage EXCEPT !.role = JMissing]>>)),
   Field(JList(<<[UserMessage EXCEPT !.role = JString(<<"t", "o", "o", "l">>)]>>)),
   Field(JList(<<UserMessage, [UserMessage EXCEPT !.role = JString(<<>>)]>>)),
   Field(JList(<<SystemMessage, UserMessage, [UserMessage EXCEPT !.content = JMissing]>>)),
   Field(JList(<<[UserMessage EXCEPT !.content = JNonString], JNonObject>>))}

DomainArgs == {Omitted, Field(<<>>), Field(<<<<"a">>>>), Field(<<<<"a">>, <<"-", "b">>>>),
               Field([i \in 1..(MaxDomains + 1) |-> <<"a">>])}
RecencyArgs == {Omitted, Field(<<"w", "e", "e", "k">>)}
ContextArgs == {Omitted, Field(<<"l", "o", "w">>)}
EffortArgs == {Omitted, Field(<<"h", "i", "g", "h">>)}
StripArgs == {Omitted, Field(TRUE), Field(FALSE)}

ArgsOf(t) ==
  CASE t = "perplexity_ask" ->
         {[NoArgs EXCEPT !.messages = m, !.search_recency_filter = r,
                         !.search_domain_filter = d, !.search_context_size = c] :
            m \in MessageLists, r \in RecencyArgs, d \in DomainArgs, c \in ContextArgs}
           \cup {[NoArgs EXCEPT !.messages = m] : m \in MalformedLists}
    [] t = "perplexity_research" ->
         {[NoArgs EXCEPT !.messages = m, !.strip_thinking = s, !.reasoning_effort = e] :
            m \in MessageLists, s \in StripArgs, e \in EffortArgs}
           \cup {[NoArgs EXCEPT !.messages = m] : m \in MalformedLists}
    [] t = "perplexity_reason" ->
         {[NoArgs EXCEPT !.messages = m, !.strip_thinking = s,
                         !.search_recency_filter = r, !.search_domain_filter = d] :
            m \in MessageLists, s \in StripArgs, r \in RecencyArgs, d \in DomainArgs}
           \cup {[NoArgs EXCEPT !.messages = m] : m \in MalformedLists}
    [] t = SearchTool ->
         {[NoArgs EXCEPT !.query = Field(<<"q">>), !.max_results = n, !.country = c] :
            n \in {Omitted, Field(5)}, c \in {Omitted, Field(<<"U", "S">>), Field(<<>>)}}

Environments == [apiKey : BOOLEAN,
                 timeout : {Undefined, <<>>, <<"5", "0">>}]

StatusSample == {200, 299, 300, 404, 500}
StatusTexts == {<<"O", "K">>, <<>>}
ErrorTexts == {<<"q", "u", "o", "t", "a">>, <<>>}
Causes == {<<"E", "C", "O", "N", "N", "R", "E", "S", "E", "T">>}

ContentSample ==
  {<<"A">>, <<>>,
   ThinkOpen \o <<"x", "\n">> \o ThinkClose \o <<" ", "A", "\n">>,
   ThinkOpen \o <<"i", "n", "t", "e", "r", "n", "a", "l">> \o ThinkClose
     \o <<"F", "i", "n", "a", "l", " ", "a", "n", "s", "w", "e", "r">>,
   <<"<", "t", "h">> \o ThinkOpen \o <<"x">> \o ThinkClose
     \o <<"i", "n", "k", ">", "y">> \o ThinkClose}
CitationSample == {JMissing, JList(<<>>), JList(<<<<"u">>, <<"v">>>>),
                   JList(<<ThinkOpen \o <<"w">> \o ThinkClose>>)}
MessageSample == {JMissing, JNonObject, JMessage(JMissing), JMessage(JNonString)}
                   \cup {JMessage(JString(c)) : c \in ContentSample}
ChoiceSample == {JNonObject} \cup {JChoice(m) : m \in MessageSample}
ChoicesSample ==
  {JMissing, JNonList, JList(<<>>),
   JList(<<JChoice(JMessage(JString(<<"A">>))), JChoice(JMessage(JString(<<"B">>)))>>)}
    \cup {JList(<<c>>) : c \in ChoiceSample}
CompletionBodies ==
  {JUnparseable, JNonObject}
    \cup {JCompletion(ch, ci, x) : ch \in ChoicesSample, ci \in CitationSample, x \in BOOLEAN}

ResultT == JResult(<<"T">>, <<"U">>, Omitted, Omitted, Omitted)
ResultFull == JResult(<<"T", "2">>, <<"V">>, Field(<<"s">>), Field(<<"d">>), Field(<<"l">>))
SearchBodies ==
  {JUnparseable, JNonObject, JSearch(JMissing), JSearch(JNonList), JSearch(JList(<<>>)),
   JSearch(JList(<<ResultT>>)), JSearch(JList(<<ResultFull, ResultT>>))}

Line(text) == DataMarker \o <<" ">> \o text \o <<"\n">>
ChunkSample ==
  {Line(<<"{", "A", "}">>),
   Line(<<"{", "B", "}">>) \o Line(DoneToken),
   Line(<<"{", "M", "}">>),
   DataMarker \o <<" ", "{">>,
   <<"N", "}", "\r", "\n">>,
   <<"\n", ":", " ", "p", "i", "n", "g", "\n">>,
   DataMarker \o <<" ", "{", "N", "}">>,
   Line(<<"{", "Z", "}">>) \o Line(<<"{", "E", "}">>),
   Line(<<"{", "N", "}">>),
   Line(<<"{", "A", "}">>) \o Line(<<"{", "x">>) \o Line(<<"{", "B", "}">>)}

InitCall ==
  /\ filters = NoFilters
  /\ validator = "none"
  /\ verdict = Ok
  /\ tool \in ChatTools \cup {SearchTool}
  /\ args \in ArgsOf(tool)
  /\ env \in Environments
  /\ CallIdle
  /\ HttpIdle
  /\ ConfigIdle

\* A call of a chat tool up to the await of fetch: the arguments are held
\* against the input schema of the tool, the handler runs validateMessages, then
\* performChatCompletion checks the key, reads the timeout, builds the body,
\* arms the timer and issues the POST.
InvokeCompletion ==
  /\ pc = "idle"
  /\ tool \in ChatTools
  /\ IF messagesSchema(args.messages) # NoError
     THEN /\ pc' = "thrown"
          /\ result' = Thrown(messagesSchema(args.messages))
          /\ UNCHANGED <<timeoutMs, body, posts, timer>>
     ELSE IF validateMessages(args.messages) # NoError
     THEN /\ pc' = "thrown"
          /\ result' = Thrown(validateMessages(args.messages))
          /\ UNCHANGED <<timeoutMs, body, posts, timer>>
     ELSE IF ~env.apiKey
     THEN /\ pc' = "thrown"
          /\ result' = Thrown(ConfigError)
          /\ UNCHANGED <<timeoutMs, body, posts, timer>>
     ELSE /\ timeoutMs' = readTimeout(env)
          /\ body' = chatBody(ModelOf(tool), args.messages.v.v, optionsOf(tool, args))
          /\ timer' = "pending"
          /\ posts' = posts + 1
          /\ pc' = "fetching"
          /\ UNCHANGED result
  /\ UNCHANGED <<fvars, evars, hvars, tool, args, env, aborted, response, reads, acc>>

\* The handler of perplexity_search up to the await of fetch.
InvokeSearch ==
  /\ pc = "idle"
  /\ tool = SearchTool
  /\ IF ~env.apiKey
     THEN /\ pc' = "thrown"
          /\ result' = Thrown(ConfigError)
          /\ UNCHANGED <<timeoutMs, body, posts, timer>>
     ELSE /\ timeoutMs' = readTimeout(env)
          /\ body' = searchBody(args)
          /\ timer' = "pending"
          /\ posts' = posts + 1
          /\ pc' = "fetching"
          /\ UNCHANGED result
  /\ UNCHANGED <<fvars, evars, hvars, tool, args, env, aborted, response, reads, acc>>

\* The callback of setTimeout: controller.abort().
TimerFires ==
  /\ timer = "pending"
  /\ timer' = "fired"
  /\ aborted' = TRUE
  /\ UNCHANGED <<fvars, evars, hvars, tool, args, env, pc, timeoutMs, body, posts, response, reads,
                 acc, result>>

\* clearTimeout(timeoutId): a pending timer is disarmed, any other is left as it is.
clearTimeout(t) == IF t = "pending" THEN "cleared" ELSE t

\* fetch resolves with the response head; the timer is cleared; the call goes on
\* to read the body that its status and its mode ask for.
FetchResolves ==
  /\ pc = "fetching"
  /\ ~aborted
  /\ \E status \in StatusSample, statusText \in StatusTexts, bodyNull \in BOOLEAN :
       /\ response' = ResponseHead(status, statusText)
       /\ timer' = clearTimeout(timer)
       /\ IF ~ok(status)
          THEN /\ ~bodyNull
               /\ pc' = "errorBody"
               /\ UNCHANGED result
          ELSE IF tool \in ChatTools /\ useStreaming(ModelOf(tool))
          THEN IF bodyNull
               THEN \* consumeSSEStream throws "Response body is null"
                    /\ pc' = "thrown"
                    /\ result' = Thrown(ParseFailure(<<"n", "u", "l", "l">>))
               ELSE /\ pc' = "streaming"
                    /\ UNCHANGED result
          ELSE /\ ~bodyNull
               /\ pc' = "jsonBody"
               /\ UNCHANGED result
  /\ UNCHANGED <<fvars, evars, hvars, tool, args, env, timeoutMs, body, posts, aborted, reads, acc>>

\* The catch around fetch, after clearTimeout: an AbortError becomes the timeout
\* error, every other error the network error.
dispatchError_NoAbortCheck(isAbort, ms, cause) == NetworkError(cause)
dispatchError(isAbort, ms, cause) ==
  IF isAbort THEN TimeoutError(ms) ELSE NetworkError(cause)

AbortCause == <<"A", "b", "o", "r", "t", "E", "r", "r", "o", "r">>

\* fetch rejects with the AbortError of the aborted signal.
FetchAborted ==
  /\ pc = "fetching"
  /\ aborted
  /\ timer' = clearTimeout(timer)
  /\ pc' = "thrown"
  /\ result' = Thrown(dispatchError(TRUE, timeoutMs, AbortCause))
  /\ UNCHANGED <<fvars, evars, hvars, tool, args, env, timeoutMs, body, posts, aborted, response,
                 reads, acc>>

\* The same rejection without the clearTimeout of the catch.
FetchFails_TimerLeft ==
  /\ pc = "fetching"
  /\ ~aborted
  /\ \E cause \in Causes :
       /\ pc' = "thrown"
       /\ result' = Thrown(dispatchError(FALSE, timeoutMs, cause))
  /\ UNCHANGED <<fvars, evars, hvars, tool, args, env, timeoutMs, body, posts, timer, aborted,
                 response, reads, acc>>

\* A catch that sends the request once more after a network error.
FetchFails_Retries ==
  /\ pc = "fetching"
  /\ ~aborted
  /\ IF posts < 2
     THEN /\ posts' = posts + 1
          /\ timer' = "pending"
          /\ UNCHANGED <<pc, result>>
     ELSE /\ \E cause \in Causes :
               result' = Thrown(dispatchError(FALSE, timeoutMs, cause))
          /\ timer' = clearTimeout(timer)
          /\ pc' = "thrown"
          /\ UNCHANGED posts
  /\ UNCHANGED <<fvars, evars, hvars, tool, args, env, timeoutMs, body, aborted, response, reads, acc>>

\* fetch rejects with any other error.
FetchFails ==
  /\ pc = "fetching"
  /\ ~aborted
  /\ \E cause \in Causes :
       /\ timer' = clearTimeout(timer)
       /\ pc' = "thrown"
       /\ result' = Thrown(dispatchError(FALSE, timeoutMs, cause))
  /\ UNCHANGED <<fvars, evars, hvars, tool, args, env, timeoutMs, body, posts, aborted, response,
                 reads, acc>>

\* if (!response.ok): response.text() resolves or rejects, and the Error is thrown.
ReadErrorBody ==
  /\ pc = "errorBody"
  /\ \E readOk \in BOOLEAN, text \in ErrorTexts :
       /\ response' = [response EXCEPT !.bodyRead = IF readOk THEN "ok" ELSE "failed"]
       /\ result' = Thrown(UpstreamError(response.status, response.statusText,
                                         IF readOk THEN text ELSE UnableToParse))
  /\ pc' = "thrown"
  /\ UNCHANGED <<fvars, evars, hvars, tool, args, env, timeoutMs, body, posts, timer, aborted,
                 reads, acc>>

\* From the data of a completion that parsed to what the call returns or throws.
completionResult(json, stripThinking) ==
  IF CompletionIssues(json) # {}
  THEN Thrown(classifyZodError(CompletionIssues(json)))
  ELSE Returned(completionText(json, stripThinking))

\* response.json() and ChatCompletionResponseSchema.parse, then the text.
ReadCompletionJson ==
  /\ pc = "jsonBody"
  /\ tool \in ChatTools
  /\ \E json \in CompletionBodies :
       /\ response' = [response EXCEPT !.json = json]
       /\ result' = IF json = JUnparseable
                    THEN Thrown(ParseFailure(SyntaxCause))
                    ELSE completionResult(json, stripThinkingOf(tool, args))
  /\ pc' = IF result'.kind = "ok" THEN "returned" ELSE "thrown"
  /\ UNCHANGED <<fvars, evars, hvars, tool, args, env, timeoutMs, body, posts, timer, aborted,
                 reads, acc>>

\* response.json() and SearchResponseSchema.parse, then formatSearchResults.
ReadSearchJson ==
  /\ pc = "jsonBody"
  /\ tool = SearchTool
  /\ \E json \in SearchBodies :
       /\ response' = [response EXCEPT !.json = json]
       /\ IF json = JUnparseable
          THEN result' = Thrown(ParseFailure(SyntaxCause))
          ELSE IF SearchIssues(json) # {}
          THEN result' = Thrown(ParseFailure(ZodCause))
          ELSE \E data \in SearchParsed(json) :
                 result' = Returned(formatSearchResults(data))
  /\ pc' = IF result'.kind = "ok" THEN "returned" ELSE "thrown"
  /\ UNCHANGED <<fvars, evars, hvars, tool, args, env, timeoutMs, body, posts, timer, aborted,
                 reads, acc>>

\* reader.read() resolves with a chunk: one turn of the loop of consumeSSEStream.
ReadChunk ==
  /\ pc = "streaming"
  /\ Len(reads) < MaxChunks
  /\ \E chunk \in ChunkSample :
       /\ acc' = processChunk(acc, chunk)
       /\ reads' = Append(reads, chunk)
  /\ UNCHANGED <<fvars, evars, hvars, tool, args, env, pc, timeoutMs, body, posts, timer, aborted,
                 response, result>>

\* An end of the stream that parses what is left in the buffer as a last line.
StreamEnds_FlushesBuffer ==
  /\ pc = "streaming"
  /\ response' = [response EXCEPT !.json = assembled(processLine(acc, acc.buffer))]
  /\ result' = completionResult(assembled(processLine(acc, acc.buffer)),
                                stripThinkingOf(tool, args))
  /\ pc' = IF result'.kind = "ok" THEN "returned" ELSE "thrown"
  /\ UNCHANGED <<fvars, evars, hvars, tool, args, env, timeoutMs, body, posts, timer, aborted,
                 reads, acc>>

\* reader.read() resolves with done: the response is assembled (response.json
\* holds it), validated and turned into the text.
StreamEnds ==
  /\ pc = "streaming"
  /\ response' = [response EXCEPT !.json = assembled(acc)]
  /\ result' = completionResult(assembled(acc), stripThinkingOf(tool, args))
  /\ pc' = IF result'.kind = "ok" THEN "returned" ELSE "thrown"
  /\ UNCHANGED <<fvars, evars, hvars, tool, args, env, timeoutMs, body, posts, timer, aborted,
                 reads, acc>>

\* A failure of the stream that hands on, with the error, the content read so far.
StreamFails_KeepsContent ==
  /\ pc = "streaming"
  /\ \E cause \in Causes :
       result' = [Thrown(ParseFailure(cause)) EXCEPT !.text = Concat(acc.contentParts)]
  /\ pc' = "thrown"
  /\ UNCHANGED <<fvars, evars, hvars, tool, args, env, timeoutMs, body, posts, timer, aborted,
                 response, reads, acc>>

\* reader.read() rejects: the catch of the parse step turns it into a parse failure.
StreamFails ==
  /\ pc = "streaming"
  /\ \E cause \in Causes : result' = Thrown(ParseFailure(cause))
  /\ pc' = "thrown"
  /\ UNCHANGED <<fvars, evars, hvars, tool, args, env, timeoutMs, body, posts, timer, aborted,
                 response, reads, acc>>

NextCall ==
  \/ InvokeCompletion
  \/ InvokeSearch
  \/ TimerFires
  \/ FetchResolves
  \/ FetchAborted
  \/ FetchFails
  \/ ReadErrorBody
  \/ ReadCompletionJson
  \/ ReadSearchJson
  \/ ReadChunk
  \/ StreamEnds
  \/ StreamFails

SpecCall == InitCall /\ [][NextCall]_vars

-----------------------------------------------------------------------------
(* SpecFormat: formatSearchResults of both servers on the data of a search *)

MaxResults == 2           \* results of one search response, at most

ResultSample ==
  {JResult(<<"T">>, <<"U">>, Omitted, Omitted, Omitted),
   JResult(<<"T">>, <<"U">>, Field(<<"s">>), Omitted, Omitted),
   JResult(<<"T">>, <<"U">>, Omitted, Field(<<"d">>), Omitted),
   JResult(<<"T">>, <<"U">>, Omitted, Omitted, Field(<<"l">>)),
   JResult(<<"T">>, <<"U">>, Field(<<>>), Field(<<>>), Field(<<>>)),
   JResult(<<"V">>, <<"W">>, Field(<<"s">>), Field(<<"d">>), Field(<<"l">>))}
ResultLists == UNION {[1..n -> ResultSample] : n \in 0..MaxResults}
SearchData ==
  {JSearch(JMissing), JSearch(JNonList)} \cup {JSearch(JList(l)) : l \in ResultLists}

InitFormat ==
  /\ filters = NoFilters
  /\ validator = "none"
  /\ verdict = Ok
  /\ tool = SearchTool
  /\ args = NoArgs
  /\ env = [apiKey |-> TRUE, timeout |-> Undefined]
  /\ pc = "idle"
  /\ timeoutMs = 0
  /\ body = NoBody
  /\ posts = 0
  /\ timer = "none"
  /\ aborted = FALSE
  /\ \E data \in SearchData : response = [NoResponse EXCEPT !.json = data]
  /\ reads = <<>>
  /\ acc = EmptyAcc
  /\ result = NoResult
  /\ HttpIdle
  /\ ConfigIdle

\* formatSearchResults(data) of src/src/server.ts
FormatSearchResults ==
  /\ pc = "idle"
  /\ result' = Returned(formatSearchResults(response.json))
  /\ pc' = "formatted"
  /\ UNCHANGED <<fvars, evars, hvars, tool, args, env, timeoutMs, body, posts, timer, aborted,
                 response, reads, acc>>

\* formatSearchResults(data) of src/perplexity-search/server.ts
FormatSearchResultsSearchServer ==
  /\ pc = "idle"
  /\ result' = Returned(formatSearchResultsSearchServer(response.json))
  /\ pc' = "formattedSearchServer"
  /\ UNCHANGED <<fvars, evars, hvars, tool, args, env, timeoutMs, body, posts, timer, aborted,
                 response, reads, acc>>

NextFormat == FormatSearchResults \/ FormatSearchResultsSearchServer

SpecFormat == InitFormat /\ [][NextFormat]_vars

-----------------------------------------------------------------------------
(* The claims about one tool invocation *)

\* The FilterSet a completion call carries in its arguments.
FilterSetOf(a) ==
  [NoFilters EXCEPT
     !.search_recency_filter =
        IF a.search_recency_filter = Omitted THEN Undefined ELSE a.search_recency_filter.v,
     !.search_domain_filter =
        IF a.search_domain_filter = Omitted THEN NoList ELSE a.search_domain_filter.v]

Started == pc # "idle"
Over == pc \in {"returned", "thrown"}

\* C4, as the claim states it: in every completion call the Filter Validator
\* runs before the body is built and the request dispatched, so a call whose
\* FilterSet the validator refuses has thrown without building a body and
\* without any outbound request.
C4_AsStated ==
  (Started /\ tool \in ChatTools /\ validateFilters(FilterSetOf(args)) # Ok)
    => (pc = "thrown" /\ body = NoBody /\ posts = 0)

\* The state that refutes it: a request is in flight whose body carries a domain
\* filter that mixes both modes.
C4_Witness ==
  /\ tool = "perplexity_ask"
  /\ posts = 1
  /\ validateFilters(FilterSetOf(args)) = MixedDomainMode
  /\ body.search_domain_filter = args.search_domain_filter

\* A dispatch failure: the call threw after its request went out and before a
\* response head arrived.
DispatchFailed == pc = "thrown" /\ posts > 0 /\ response = NoResponse

\* C5: once the timer has fired the request is aborted and the call makes no
\* progress but to fail with the Timeout error that carries the configured
\* timeout; a failure of the network call without an abort is a NetworkError
\* that carries its cause; every dispatch failure is one of the two.
C5_DispatchFailure ==
  /\ aborted => (pc \in {"fetching", "thrown"} /\ response = NoResponse /\ reads = <<>>)
  /\ (aborted /\ pc = "thrown") =>
       (DispatchFailed /\ result = Thrown(TimeoutError(readTimeout(env))))
  /\ (DispatchFailed /\ ~aborted) =>
       (result.error.kind = "NetworkError" /\ result.error.cause \in Causes
          /\ result = Thrown(NetworkError(result.error.cause)))
  /\ DispatchFailed => result.error.kind \in {"Timeout", "NetworkError"}

C5_Witness ==
  /\ env.timeout = <<"5", "0">>
  /\ aborted
  /\ DispatchFailed
  /\ result.error.kind = "Timeout"
  /\ result.error.timeoutMs = 50

\* C6, as the claim states it: while the body of a streaming response is being
\* read, the deadline of the call is still armed.
C6_AsStated == pc = "streaming" => timer = "pending"

\* The state that refutes it: chunks are being read and the timer was cleared.
C6_Witness == pc = "streaming" /\ Len(reads) >= 1 /\ timer = "cleared" /\ ~aborted

\* C7: when a completion or search call has returned or thrown, the timer it
\* armed is no longer pending; it was cleared on the success path and on the
\* failure path of the dispatch alike.
C7_TimerDisarmed ==
  /\ Over => timer # "pending"
  /\ (Over /\ posts > 0 /\ ~aborted) => timer = "cleared"
  /\ pc \in {"errorBody", "jsonBody", "streaming"} => timer = "cleared"

C7_Witness ==
  /\ pc = "thrown"
  /\ result.error.kind = "NetworkError"
  /\ timer = "cleared"

Is2xx(status) == status \div 100 = 2

\* C8: a response whose status is not 2xx makes the call fail with UpstreamError
\* carrying the status, the status text and the body text; when the body cannot
\* be read the error carries the placeholder text; the body is never parsed or
\* validated.
C8_UpstreamError ==
  (response.t = "response" /\ ~Is2xx(response.status)) =>
    /\ pc \in {"errorBody", "thrown"}
    /\ response.json = JMissing
    /\ reads = <<>>
    /\ acc = EmptyAcc
    /\ pc = "thrown" =>
         /\ response.bodyRead \in {"ok", "failed"}
         /\ result.kind = "error"
         /\ result.error.kind = "UpstreamError"
         /\ result.error.status = response.status
         /\ result.error.statusText = response.statusText
         /\ response.bodyRead = "failed" => result.error.bodyText = UnableToParse
         /\ response.bodyRead = "ok" => result.error.bodyText \in ErrorTexts

C8_Witness ==
  /\ pc = "thrown"
  /\ response.status = 300
  /\ response.bodyRead = "failed"
  /\ result.error = UpstreamError(300, response.statusText, UnableToParse)

\* The body of a buffered completion response was read.
CompletionRead == Over /\ tool \in ChatTools /\ response.json # JMissing

HasChoicesList(j) == j.t = "object" /\ j.choices.t = "list"
HasFirstChoice(j) ==
  HasChoicesList(j) /\ Len(j.choices.v) > 0 /\ j.choices.v[1].t = "object"
HasContent(j) ==
  /\ HasFirstChoice(j)
  /\ j.choices.v[1].message.t = "object"
  /\ j.choices.v[1].message.content.t = "string"
Failed(kind) == result.kind = "error" /\ result.error.kind = kind

\* C9, as the claim states it: an empty choices list is EmptyChoices, a first
\* choice without a message.content string is MissingContent, every other
\* mismatch and every unparseable body is the generic parse failure, and a body
\* of the right shape passes whatever else it carries.
C9_AsStated ==
  CompletionRead =>
    LET j == response.json IN
    /\ (HasChoicesList(j) /\ Len(j.choices.v) = 0) => Failed("EmptyChoices")
    /\ (HasChoicesList(j) /\ Len(j.choices.v) > 0 /\ ~HasContent(j))
         => Failed("MissingContent")
    /\ ~HasChoicesList(j) => Failed("ParseFailure")
    /\ HasContent(j) => result.kind = "ok"

\* C9: a body that cannot be parsed or is no object fails with the generic parse
\* failure; a body whose choices are missing, no list, empty, or whose first
\* choice is no object fails with EmptyChoices; a first choice without a
\* message.content string fails with MissingContent; a body with that string
\* passes, whatever else it carries.
C9_SchemaErrors ==
  CompletionRead =>
    LET j == response.json IN
    /\ j.t # "object" => Failed("ParseFailure")
    /\ (j.t = "object" /\ ~HasFirstChoice(j)) => Failed("EmptyChoices")
    /\ (HasFirstChoice(j) /\ ~HasContent(j)) => Failed("MissingContent")
    /\ HasContent(j) =>
         result = Returned(completionText(j, stripThinkingOf(tool, args)))

C9_Witness ==
  /\ CompletionRead
  /\ response.json.t = "object"
  /\ HasFirstChoice(response.json)
  /\ response.json.choices.v[1].message = JMessage(JMissing)
  /\ response.json.extra
  /\ Failed("MissingContent")

ZeroResults(data) == data.results.t # "list" \/ Len(data.results.v) = 0
Formatted == pc \in {"formatted", "formattedSearchServer"}

\* C10, as the claim states it: the text of a search whose results are missing,
\* no list, or the empty list is exactly "No search results found.".
C10_AsStated ==
  (Formatted /\ ZeroResults(response.json)) => result.text = NoResultsText

\* The state that refutes it: the empty list is printed in the header form.
C10_Witness ==
  /\ pc = "formatted"
  /\ response.json.results = JList(<<>>)
  /\ result.text = FoundLabel \o <<"0">> \o ResultsLabel

-----------------------------------------------------------------------------
(* The claims about the text of a search *)

\* The lines of a text, each ended by a newline, put together.
RECURSIVE Terminated(_)
Terminated(lines) ==
  IF lines = <<>> THEN <<>> ELSE Head(lines) \o <<"\n">> \o Terminated(Tail(lines))

HeaderLine(n) ==
  <<"F", "o", "u", "n", "d", " ">> \o NumText(n)
    \o <<" ", "s", "e", "a", "r", "c", "h", " ", "r", "e", "s", "u", "l", "t", "s", ":">>
TitleLine(r, i) == NumText(i) \o <<".", " ", "*", "*">> \o r.title \o <<"*", "*">>
UrlLine(r) == <<" ", " ", " ", "U", "R", "L", ":", " ">> \o r.url
SnippetLine(r) == <<" ", " ", " ">> \o r.snippet.v
DateLine(r) == <<" ", " ", " ", "D", "a", "t", "e", ":", " ">> \o r.date.v
LastUpdatedLine(r) ==
  <<" ", " ", " ", "L", "a", "s", "t", " ", "U", "p", "d", "a", "t", "e", "d", ":", " ">>
    \o r.last_updated.v

\* A field of a result is supplied; it is supplied and not the empty string.
Present(f) == f # Omitted
Filled(f) == f # Omitted /\ f.v # <<>>

\* The lines the spec's format gives result i: every optional line of a field
\* that is present, the last-updated line included.
BlockLinesAsStated(r, i) ==
  <<TitleLine(r, i), UrlLine(r)>>
    \o (IF Present(r.snippet) THEN <<SnippetLine(r)>> ELSE <<>>)
    \o (IF Present(r.date) THEN <<DateLine(r)>> ELSE <<>>)
    \o (IF Present(r.last_updated) THEN <<LastUpdatedLine(r)>> ELSE <<>>)
    \o << <<>> >>

\* The lines of result i: the optional lines of the fields that are non-empty
\* strings; the last-updated line only where the formatter knows the field.
BlockLines(r, i, lastUpdated) ==
  <<TitleLine(r, i), UrlLine(r)>>
    \o (IF Filled(r.snippet) THEN <<SnippetLine(r)>> ELSE <<>>)
    \o (IF Filled(r.date) THEN <<DateLine(r)>> ELSE <<>>)
    \o (IF lastUpdated /\ Filled(r.last_updated) THEN <<LastUpdatedLine(r)>> ELSE <<>>)
    \o << <<>> >>

RECURSIVE AllBlockLinesAsStated(_, _)
AllBlockLinesAsStated(results, i) ==
  IF i > Len(results) THEN <<>>
  ELSE BlockLinesAsStated(results[i], i) \o AllBlockLinesAsStated(results, i + 1)

RECURSIVE AllBlockLines(_, _, _)
AllBlockLines(results, i, lastUpdated) ==
  IF i > Len(results) THEN <<>>
  ELSE BlockLines(results[i], i, lastUpdated)
         \o AllBlockLines(results, i + 1, lastUpdated)

SomeResults(data) == data.results.t = "list" /\ Len(data.results.v) >= 1

-----------------------------------------------------------------------------
(* SpecSearchServer: one request to the HTTP search server,                *)
(* src/perplexity-search/server.ts                                         *)

MaxQueries == 5

\* s.split(sep) for a one-character separator: the pieces between its occurrences.
RECURSIVE splitOn(_, _)
splitOn(s, sep) ==
  LET i == indexOf(s, <<sep>>)
  IN IF i = 0 THEN <<s>>
     ELSE <<SubSeq(s, 1, i - 1)>> \o splitOn(SubSeq(s, i + 1, Len(s)), sep)

\* The credentials the server was started with (MCP_USER, MCP_PASS).
McpUser == <<"u">>
McpPass == <<"p">>

\* The Authorization header: none, or a scheme and the text its second word
\* decodes to.
NoAuthHeader == [t |-> "none"]
AuthHeader(scheme, credentials) ==
  [t |-> "header", scheme |-> scheme, credentials |-> credentials]

\* basicAuth: "pass", or the error of the 401 reply.
basicAuth(header) ==
  IF header = NoAuthHeader \/ header.scheme # "Basic" THEN "Authentication required"
  ELSE LET parts == splitOn(header.credentials, ":")
           username == parts[1]
           password == IF Len(parts) >= 2 THEN parts[2] ELSE Undefined
       IN IF username # McpUser \/ password # McpPass THEN "Invalid credentials"
          ELSE "pass"

JNull == [t |-> "null"]
JNumber == [t |-> "number"]

\* The errors of the search server.
TooManyQueries == [NoError EXCEPT !.kind = "TooManyQueries"]
TypeError == [NoError EXCEPT !.kind = "TypeError"]

\* The replies: a status and a JSON body.  kind names the body: "error" is
\* {error, isError: true}, "content" is {content, isError: false}, "rpcResult"
\* and "rpcError" are the JSON-RPC envelopes, "authError" is {error}.  message is the fixed text of the
\* body, or "thrown" when the body carries the message of the Error in error.
NoReplyFields == [NoReply EXCEPT !.t = "reply"]
AuthReply(message) ==
  [NoReplyFields EXCEPT !.status = 401, !.kind = "authError", !.message = message]
ErrorReply(status, message) ==
  [NoReplyFields EXCEPT !.status = status, !.kind = "error", !.message = message]
ThrownReply(status, err) ==
  [NoReplyFields EXCEPT !.status = status, !.kind = "error", !.message = "thrown",
                        !.error = err]
ContentReply(text) ==
  [NoReplyFields EXCEPT !.status = 200, !.kind = "content", !.text = text]
RpcResult(text) ==
  [NoReplyFields EXCEPT !.status = 200, !.kind = "rpcResult", !.text = text]
RpcInfo(message) ==
  [NoReplyFields EXCEPT !.status = 200, !.kind = "rpcResult", !.message = message]
RpcError(code, message) ==
  [NoReplyFields EXCEPT !.status = 200, !.kind = "rpcError", !.code = code,
                        !.message = message]
RpcThrown(err) ==
  [NoReplyFields EXCEPT !.status = 200, !.kind = "rpcError", !.code = -32603,
                        !.message = "thrown", !.error = err]
ParseErrorReply ==
  [NoReplyFields EXCEPT !.status = 400, !.kind = "rpcError", !.code = -32700,
                        !.message = "Parse error"]
\* res.json of a route that answers with a fixed object: the welcome page, the
\* health status, the registration handshake, the list of tools.
InfoReply(route) ==
  [NoReplyFields EXCEPT !.status = 200, !.kind = "info", !.message = route]

isArray(v) == v.t = "list"
isString(v) == v.t = "string"

\* The check of performSearch before the body is built.
batchTooLong_AtFive(query) == isArray(query) /\ Len(query.v) >= MaxQueries
batchTooLong(query) == isArray(query) /\ Len(query.v) > MaxQueries

\* The request body of performSearch of the search server: the defaults stand in
\* for undefined arguments, the country is set when it is truthy.
searchServerBody(query, maxResults, maxTokensPerPage, country) ==
  [t |-> "search", query |-> query,
   max_results |-> IF maxResults = Omitted THEN DefaultMaxResults ELSE maxResults.v,
   max_tokens_per_page |->
     IF maxTokensPerPage = Omitted THEN DefaultMaxTokensPerPage ELSE maxTokensPerPage.v,
   country |-> whenString(country)]

\* What the handler of a route replies when performSearch returns or throws.
replyOf(route, outcome) ==
  IF route = "/mcp/call"
  THEN IF outcome.kind = "ok" THEN ContentReply(outcome.text)
       ELSE ThrownReply(500, outcome.error)
  ELSE IF outcome.kind = "ok" THEN RpcResult(outcome.text)
       ELSE RpcThrown(outcome.error)

(* The inputs *)

QueryA == JString(<<"a">>)
Batch(n) == JList([i \in 1..n |-> QueryA])
QuerySample ==
  {Omitted, Field(QueryA), Field(JNumber), Field(JList(<<QueryA, JNumber>>))}
    \cup {Field(Batch(n)) : n \in 0..(MaxQueries + 1)}

AuthSample ==
  {NoAuthHeader, AuthHeader("Bearer", <<"u", ":", "p">>),
   AuthHeader("Basic", <<"u", ":", "p">>), AuthHeader("Basic", <<"u", ":", "x">>),
   AuthHeader("Basic", <<"u">>), AuthHeader("Basic", <<"u", ":", "p", ":", "z">>)}

SearchServerArgs ==
  {[NoArgs EXCEPT !.query = q, !.max_results = n, !.country = c] :
     q \in QuerySample, n \in {Omitted, Field(5)},
     c \in {Omitted, Field(<<"U", "S">>)}}

Requests ==
  [t : {"request"}, route : {"/mcp/call"}, auth : AuthSample, method : {"none"},
   hasParams : {TRUE}, hasArgs : BOOLEAN]
    \cup [t : {"request"}, route : {"/mcp"}, auth : AuthSample,
          method : {"initialize", "tools/list", "tools/call", "other"},
          hasParams : BOOLEAN, hasArgs : BOOLEAN]
    \cup [t : {"request"}, route : {"/", "/health", "/register", "/mcp/tools"},
          auth : AuthSample, method : {"none"}, hasParams : {TRUE}, hasArgs : {TRUE}]

SearchServerBodies ==
  {JUnparseable, JNull, JNumber, JSearch(JMissing), JSearch(JNonList),
   JSearch(JList(<<>>)), JSearch(JList(<<ResultT>>)), JSearch(JList(<<ResultFull, ResultT>>))}

InitSearchServer ==
  /\ filters = NoFilters
  /\ validator = "none"
  /\ verdict = Ok
  /\ tool \in {"perplexity-search", "other"}
  /\ args \in SearchServerArgs
  /\ env = [apiKey |-> TRUE, timeout |-> Undefined]
  /\ CallIdle
  /\ request \in Requests
  /\ reply = NoReply
  /\ ConfigIdle

\* The handler replies without a search.
Replies(r) ==
  /\ reply' = r
  /\ pc' = "replied"
  /\ UNCHANGED <<body, posts, result>>

\* performSearch up to the await of fetch: it throws for a batch that is too
\* long, and the handler replies; else the body is built and the POST issued.
StartSearch(query, maxResults, maxTokensPerPage, country) ==
  IF batchTooLong(query)
  THEN /\ result' = Thrown(TooManyQueries)
       /\ reply' = replyOf(request.route, Thrown(TooManyQueries))
       /\ pc' = "replied"
       /\ UNCHANGED <<body, posts>>
  ELSE /\ body' = searchServerBody(query, maxResults, maxTokensPerPage, country)
       /\ posts' = posts + 1
       /\ pc' = "fetching"
       /\ UNCHANGED <<reply, result>>

\* args.x of the JSON-RPC route: the value as it is, undefined when absent.
queryOf(a) == IF a.query = Omitted THEN JMissing ELSE a.query.v

\* POST /mcp/call: basicAuth, then the handler up to the await of fetch.
PostMcpCall ==
  /\ pc = "idle"
  /\ request.t = "request"
  /\ request.route = "/mcp/call"
  /\ IF basicAuth(request.auth) # "pass" THEN Replies(AuthReply(basicAuth(request.auth)))
     ELSE IF ~request.hasArgs THEN Replies(ErrorReply(400, "No arguments provided"))
     ELSE IF tool # "perplexity-search" THEN Replies(ErrorReply(400, "Unknown tool"))
     ELSE IF ~isString(queryOf(args)) /\ ~isArray(queryOf(args))
     THEN Replies(ErrorReply(400, "'query' must be a string or array of strings"))
     ELSE IF isArray(queryOf(args)) /\ \E i \in 1..Len(queryOf(args).v) :
                                         ~isString(queryOf(args).v[i])
     THEN Replies(ErrorReply(400, "all query array elements must be strings"))
     ELSE IF isArray(queryOf(args)) /\ Len(queryOf(args).v) > MaxQueries
     THEN Replies(ErrorReply(400, "maximum of 5 queries allowed"))
     ELSE StartSearch(queryOf(args), args.max_results, args.max_tokens_per_page,
                      args.country)
  /\ UNCHANGED <<fvars, evars, tool, args, env, timeoutMs, timer, aborted, response, reads,
                 acc, request>>

\* POST /mcp: basicAuth, then the JSON-RPC handler up to the await of fetch.
PostMcp ==
  /\ pc = "idle"
  /\ request.t = "request"
  /\ request.route = "/mcp"
  /\ IF basicAuth(request.auth) # "pass" THEN Replies(AuthReply(basicAuth(request.auth)))
     ELSE IF request.method = "initialize" THEN Replies(RpcInfo("initialize"))
     ELSE IF request.method = "tools/list" THEN Replies(RpcInfo("tools/list"))
     ELSE IF request.method # "tools/call" THEN Replies(RpcError(-32601, "Unknown method"))
     ELSE IF ~request.hasParams THEN Replies(ParseErrorReply)
     ELSE IF tool # "perplexity-search" THEN Replies(RpcError(-32601, "Unknown tool"))
     ELSE IF ~request.hasArgs
     THEN /\ result' = Thrown(TypeError)
          /\ reply' = RpcThrown(TypeError)
          /\ pc' = "replied"
          /\ UNCHANGED <<body, posts>>
     ELSE StartSearch(queryOf(args), args.max_results, args.max_tokens_per_page,
                      args.country)
  /\ UNCHANGED <<fvars, evars, tool, args, env, timeoutMs, timer, aborted, response, reads,
                 acc, request>>

\* GET / and GET /health: no middleware before the handler.
PublicInfo ==
  /\ pc = "idle"
  /\ request.t = "request"
  /\ request.route \in {"/", "/health"}
  /\ Replies(InfoReply(request.route))
  /\ UNCHANGED <<fvars, evars, tool, args, env, timeoutMs, timer, aborted, response, reads,
                 acc, request>>

\* POST /register and GET /mcp/tools: basicAuth, then the handler.
GuardedInfo ==
  /\ pc = "idle"
  /\ request.t = "request"
  /\ request.route \in {"/register", "/mcp/tools"}
  /\ IF basicAuth(request.auth) # "pass" THEN Replies(AuthReply(basicAuth(request.auth)))
     ELSE Replies(InfoReply(request.route))
  /\ UNCHANGED <<fvars, evars, tool, args, env, timeoutMs, timer, aborted, response, reads,
                 acc, request>>

\* performSearch ends, and the handler that awaited it replies.
SearchEnds(outcome) ==
  /\ result' = outcome
  /\ reply' = replyOf(request.route, outcome)
  /\ pc' = "replied"

\* fetch resolves with the response head.
ServerFetchResolves ==
  /\ request.t = "request"
  /\ pc = "fetching"
  /\ \E status \in StatusSample, statusText \in StatusTexts :
       /\ response' = ResponseHead(status, statusText)
       /\ pc' = IF ok(status) THEN "jsonBody" ELSE "errorBody"
  /\ UNCHANGED <<fvars, evars, tool, args, env, timeoutMs, body, posts, timer, aborted, reads,
                 acc, result, hvars>>

\* fetch rejects.
ServerFetchFails ==
  /\ request.t = "request"
  /\ pc = "fetching"
  /\ \E cause \in Causes : SearchEnds(Thrown(NetworkError(cause)))
  /\ UNCHANGED <<fvars, evars, tool, args, env, timeoutMs, body, posts, timer, aborted,
                 response, reads, acc, request>>

\* if (!response.ok): the text is read, or the placeholder taken, and the error thrown.
ServerReadErrorBody ==
  /\ request.t = "request"
  /\ pc = "errorBody"
  /\ \E readOk \in BOOLEAN, text \in ErrorTexts :
       /\ response' = [response EXCEPT !.bodyRead = IF readOk THEN "ok" ELSE "failed"]
       /\ SearchEnds(Thrown(UpstreamError(response.status, response.statusText,
                                          IF readOk THEN text ELSE UnableToParse)))
  /\ UNCHANGED <<fvars, evars, tool, args, env, timeoutMs, body, posts, timer, aborted,
                 reads, acc, request>>

\* data = await response.json(); return formatSearchResults(data)
ServerReadJson ==
  /\ request.t = "request"
  /\ pc = "jsonBody"
  /\ \E json \in SearchServerBodies :
       /\ response' = [response EXCEPT !.json = json]
       /\ SearchEnds(IF json = JUnparseable THEN Thrown(ParseFailure(SyntaxCause))
                     ELSE IF json = JNull THEN Thrown(TypeError)
                     ELSE IF json = JNumber THEN Returned(NoResultsText)
                     ELSE Returned(formatSearchResultsSearchServer(json)))
  /\ UNCHANGED <<fvars, evars, tool, args, env, timeoutMs, body, posts, timer, aborted,
                 reads, acc, request>>

NextSearchServer ==
  \/ PostMcpCall
  \/ PostMcp
  \/ PublicInfo
  \/ GuardedInfo
  \/ ServerFetchResolves
  \/ ServerFetchFails
  \/ ServerReadErrorBody
  \/ ServerReadJson

SpecSearchServer == InitSearchServer /\ [][NextSearchServer]_vars

-----------------------------------------------------------------------------
(* The claims about the search server *)

\* The request is authorised and asks for a search with arguments.
SearchRequested ==
  /\ request.t = "request"
  /\ basicAuth(request.auth) = "pass"
  /\ tool = "perplexity-search"
  /\ request.hasArgs
  /\ request.route = "/mcp/call" \/ (request.method = "tools/call" /\ request.hasParams)

\* q is a batch of n strings.
StringBatch(q, n) ==
  q.t = "list" /\ Len(q.v) = n /\ \A i \in 1..n : q.v[i].t = "string"

\* C12: a search whose query is a batch of more than 5 strings is answered with
\* an error before any request goes out (no body is built, nothing is posted);
\* a batch of 1 to 5 strings and a single string are dispatched, as they are.
C12_BatchLimit ==
  (SearchRequested /\ pc # "idle") =>
    LET q == queryOf(args) IN
    /\ (\E n \in (MaxQueries + 1)..(MaxQueries + 2) : StringBatch(q, n)) =>
         /\ pc = "replied"
         /\ posts = 0
         /\ body = NoBody
         /\ response = NoResponse
         /\ reply.kind \in {"error", "rpcError"}
         /\ request.route = "/mcp/call" =>
              reply = ErrorReply(400, "maximum of 5 queries allowed")
         /\ request.route = "/mcp" => reply = RpcThrown(TooManyQueries)
    /\ (q.t = "string" \/ \E n \in 1..MaxQueries : StringBatch(q, n)) =>
         (posts = 1 /\ body.t = "search" /\ body.query = q)

C12_Witness ==
  /\ SearchRequested
  /\ request.route = "/mcp"
  /\ StringBatch(queryOf(args), MaxQueries + 1)
  /\ pc = "replied"
  /\ posts = 0
  /\ reply = RpcThrown(TooManyQueries)

-----------------------------------------------------------------------------
(* The claims about the stream *)

\* The text of the whole stream and its lines that a newline ended.
StreamText == Concat(reads)
EndedLines(text) ==
  LET pieces == splitOn(text, "\n") IN SubSeq(pieces, 1, Len(pieces) - 1)

\* The payload of a data line, <<>> for every other line.
PayloadOf(line) ==
  LET l == trim(line) IN
  IF Len(l) >= 5 /\ SubSeq(l, 1, 5) = <<"d", "a", "t", "a", ":">>
  THEN trim(SubSeq(l, 6, Len(l))) ELSE <<>>

\* The object a payload denotes; NoChunkFields for what is no JSON object.
ObjectOf(payload) ==
  IF Len(payload) = 3 /\ payload[1] = "{" /\ payload[3] = "}"
       /\ payload[2] \in DOMAIN Payloads
  THEN Payloads[payload[2]] ELSE NoChunkFields

\* The content delta a line carries, <<>> when it carries none.
DeltaOf(line) ==
  LET o == ObjectOf(PayloadOf(line)) IN IF o.content = Omitted THEN <<>> ELSE o.content.v

RECURSIVE AllDeltas(_)
AllDeltas(lines) ==
  IF lines = <<>> THEN <<>> ELSE DeltaOf(Head(lines)) \o AllDeltas(Tail(lines))

\* The stream of the research call ended and its response was assembled.
StreamAssembled ==
  tool = "perplexity_research" /\ Over /\ response.json # JMissing

\* C13: whatever chunks the stream delivered, the assembled response has exactly
\* one choice, with finish_reason "stop", whose message.content is the content
\* deltas of the stream's data lines put together in the order of arrival with
\* nothing between them; [DONE] lines add nothing; the call returns (with empty
\* content when no line carried a delta) and does not fail.
C13_AssembledContent ==
  StreamAssembled =>
    /\ response.json.choices.t = "list"
    /\ Len(response.json.choices.v) = 1
    /\ response.json.choices.v[1].finish_reason = "stop"
    /\ response.json.choices.v[1].message.content
         = JString(AllDeltas(EndedLines(StreamText)))
    /\ pc = "returned"
    /\ result.kind = "ok"

C13_Witness ==
  /\ StreamAssembled
  /\ reads = <<Line(<<"{", "B", "}">>) \o Line(DoneToken), Line(<<"{", "A", "}">>)>>
  /\ response.json.choices.v[1].message.content = JString(<<"B", "A">>)
  /\ pc = "returned"

\* A data line whose payload is neither [DONE] nor the text of a JSON object.
IsDataLine(line) ==
  LET l == trim(line) IN Len(l) >= 5 /\ SubSeq(l, 1, 5) = <<"d", "a", "t", "a", ":">>
MalformedLine(line) ==
  /\ IsDataLine(line)
  /\ PayloadOf(line) # DoneToken
  /\ ~(/\ Len(PayloadOf(line)) = 3
       /\ PayloadOf(line)[1] = "{"
       /\ PayloadOf(line)[3] = "}")

RECURSIVE WithoutMalformed(_)
WithoutMalformed(lines) ==
  IF lines = <<>> THEN <<>>
  ELSE IF MalformedLine(Head(lines)) THEN WithoutMalformed(Tail(lines))
       ELSE <<Head(lines)>> \o WithoutMalformed(Tail(lines))

\* What the accumulator holds besides its buffer.
Accumulated(a) == [a EXCEPT !.buffer = <<>>]

\* C14: reading a chunk never ends the assembly, whatever its lines hold, and
\* after it the accumulator holds what the lines of the stream would give with
\* the data lines that are no valid JSON taken out of it.
C14_MalformedSkipped ==
  [][(pc = "streaming" /\ reads' # reads) =>
       /\ pc' = "streaming"
       /\ Accumulated(acc')
            = Accumulated(processLines(EmptyAcc,
                            WithoutMalformed(EndedLines(Concat(reads')))))]_vars

C14_Witness ==
  /\ pc = "streaming"
  /\ \E i \in 1..Len(reads) :
       reads[i] = Line(<<"{", "A", "}">>) \o Line(<<"{", "x">>) \o Line(<<"{", "B", "}">>)
  /\ \E i \in 1..Len(reads) : reads[i] = Line(<<"{", "M", "}">>)
  /\ acc.contentParts = <<<<"A">>, <<"B">>>>
  /\ acc.id = Field(<<"i", "1">>)

\* C15: the piece after the last newline of what was read so far is kept in the
\* buffer, unparsed, and the accumulator is what it would be had the whole text
\* of the stream arrived as one chunk: where the chunks end changes nothing.
C15_ChunkBoundaries ==
  LET pieces == splitOn(StreamText, "\n") IN
  /\ acc.buffer = pieces[Len(pieces)]
  /\ Concat(acc.contentParts) = AllDeltas(EndedLines(StreamText))
  /\ acc = processChunk(EmptyAcc, StreamText)

\* A line cut in two by a chunk boundary, and a line whose newline came with the
\* next chunk.
C15_Witness ==
  /\ StreamAssembled
  /\ \/ /\ reads = <<DataMarker \o <<" ", "{">>, <<"N", "}", "\r", "\n">>>>
        /\ acc.contentParts = <<<<"C">>>>
     \/ /\ reads = <<DataMarker \o <<" ", "{", "N", "}">>,
                     <<"\n", ":", " ", "p", "i", "n", "g", "\n">>>>
        /\ acc.contentParts = <<<<"C">>>>
  /\ acc.buffer = <<>>

\* The metadata fields of the accumulator, and the objects parsed so far.
MetaFields == {"id", "model", "created", "citations", "usage"}
RECURSIVE ParsedObjects(_)
ParsedObjects(lines) ==
  IF lines = <<>> THEN <<>>
  ELSE (IF ObjectOf(PayloadOf(Head(lines))) = NoChunkFields THEN <<>>
        ELSE <<ObjectOf(PayloadOf(Head(lines)))>>) \o ParsedObjects(Tail(lines))

\* An object carries a field; it carries it with a value JavaScript takes for true
\* (a non-empty string, a number other than 0, any list or object).
Carries(o, f) == o[f] # Omitted
CarriesTruthy(o, f) ==
  /\ o[f] # Omitted
  /\ CASE f \in {"id", "model"} -> o[f].v # <<>>
       [] f = "created" -> o[f].v # 0
       [] OTHER -> TRUE

\* The value of field f in the last object that carries it, by either reading.
LastCarried(objects, f) ==
  LET at == {i \in 1..Len(objects) : Carries(objects[i], f)} IN
  IF at = {} THEN Omitted ELSE objects[CHOOSE i \in at : \A j \in at : j <= i][f]
LastCarriedTruthy(objects, f) ==
  LET at == {i \in 1..Len(objects) : CarriesTruthy(objects[i], f)} IN
  IF at = {} THEN Omitted ELSE objects[CHOOSE i \in at : \A j \in at : j <= i][f]

IsPrefix(s, t) == Len(s) <= Len(t) /\ SubSeq(t, 1, Len(s)) = s
OnlyAppended == IsPrefix(acc.contentParts, acc'.contentParts)

\* C16 as stated: each metadata field holds the value of the last parsed object
\* that carried the field, and the content fragments are only ever appended.
C16_AsStated ==
  /\ [](\A f \in MetaFields :
          acc[f] = LastCarried(ParsedObjects(EndedLines(StreamText)), f))
  /\ [][OnlyAppended]_vars

\* C16: each metadata field holds the value of the last parsed object that carried
\* the field with a truthy value (an empty id or model and a created of 0 replace
\* nothing); a later value replaces the earlier one whole; and the content
\* fragments after a step are those before it, with none or more added at the end.
C16_LastTruthyWins ==
  /\ [](\A f \in MetaFields :
          acc[f] = LastCarriedTruthy(ParsedObjects(EndedLines(StreamText)), f))
  /\ [][OnlyAppended]_vars

\* Two objects with metadata were read: the later one replaced id, created,
\* citations and usage, left model alone, and its content was appended.
C16_Witness ==
  /\ pc = "streaming"
  /\ reads = <<Line(<<"{", "M", "}">>), Line(<<"{", "N", "}">>)>>
  /\ acc.id = Field(<<"i", "2">>)
  /\ acc.model = Field(<<"m", "1">>)
  /\ acc.created = Field(2)
  /\ acc.citations = Field(<<<<"v">>, <<"w">>>>)
  /\ acc.usage = Field(2)
  /\ acc.contentParts = <<<<"C">>>>

-----------------------------------------------------------------------------
(* The claims about the request body *)

\* A completion request was built; its model is the deep-research model.
CompletionSent == tool \in ChatTools /\ body # NoBody
DeepResearch == body.model = "sonar-deep-research"

\* C17: a completion request carries stream: true and has its response read by
\* the stream assembler exactly when its model is the deep-research model; with
\* any other model the body has no stream key, no chunk is ever read and the
\* response is read as one JSON body.
C17_StreamingMode ==
  CompletionSent =>
    /\ DeepResearch => body.stream = Field(TRUE) /\ pc # "jsonBody"
    /\ ~DeepResearch => body.stream = Omitted /\ pc # "streaming" /\ reads = <<>>
    /\ pc = "streaming" => DeepResearch
    /\ pc = "jsonBody" => ~DeepResearch

C17_Witness ==
  /\ CompletionSent
  /\ DeepResearch
  /\ body.stream = Field(TRUE)
  /\ pc = "streaming"
  /\ Len(reads) = 1

\* C18: the body of a completion request holds the model of the tool and the
\* caller's messages, the same ones in the same order; search_recency_filter,
\* search_domain_filter, web_search_options.search_context_size and
\* reasoning_effort are each in the body with the caller's value when the caller
\* gave the argument, and are no key of the body when the caller did not.
C18_RequestBody ==
  CompletionSent =>
    /\ body.model = ModelOf(tool)
    /\ body.messages = args.messages.v.v
    /\ body.search_recency_filter = args.search_recency_filter
    /\ body.search_domain_filter = args.search_domain_filter
    /\ body.reasoning_effort = args.reasoning_effort
    /\ body.web_search_options =
         IF args.search_context_size = Omitted THEN Omitted
         ELSE Field([search_context_size |-> args.search_context_size.v])

C18_Witness ==
  /\ CompletionSent
  /\ tool = "perplexity_ask"
  /\ body.messages = <<SystemMessage, UserMessage>>
  /\ body.search_recency_filter = Field(<<"w", "e", "e", "k">>)
  /\ body.search_domain_filter = Field(<<>>)
  /\ body.web_search_options = Field([search_context_size |-> <<"l", "o", "w">>])
  /\ body.reasoning_effort = Omitted

-----------------------------------------------------------------------------
(* The claims about the returned text *)

\* A completion call returned; the message content and citations it validated.
Answered == tool \in ChatTools /\ pc = "returned"
AnswerContent == response.json.choices.v[1].message.content.v
AnswerCitations ==
  IF response.json.citations.t = "list" THEN response.json.citations.v ELSE <<>>

\* The block the claims describe for a list of citations: a blank line, the line
\* "Citations:", then a line "[i] url" for each, counted from 1.
RECURSIVE NumberedFrom(_, _)
NumberedFrom(urls, i) ==
  IF urls = <<>> THEN <<>>
  ELSE <<"[">> \o NumText(i) \o <<"]", " ">> \o Head(urls) \o <<"\n">>
         \o NumberedFrom(Tail(urls), i + 1)
CitationsBlock(urls) ==
  IF urls = <<>> THEN <<>>
  ELSE <<"\n", "\n">> \o <<"C", "i", "t", "a", "t", "i", "o", "n", "s", ":", "\n">>
         \o NumberedFrom(urls, 1)

\* The returned text without the characters of the citations block.
ReturnedContent ==
  SubSeq(result.text, 1, Len(result.text) - Len(CitationsBlock(AnswerCitations)))

\* The caller of a tool that takes strip_thinking asked for it.
StripRequested == tool # "perplexity_ask" /\ args.strip_thinking = Field(TRUE)

\* A thinking span starts at i: the start marker, and an end marker behind it.
OpensAt(s, i) == i + 6 <= Len(s) /\ SubSeq(s, i, i + 6) = <<"<", "t", "h", "i", "n", "k", ">">>
ClosesAt(s, j) ==
  j + 7 <= Len(s) /\ SubSeq(s, j, j + 7) = <<"<", "/", "t", "h", "i", "n", "k", ">">>
SpanEnds(s, i) == {j \in (i + 7)..Len(s) : ClosesAt(s, j)}
SpanAt(s, i) == OpensAt(s, i) /\ SpanEnds(s, i) # {}
HasSpan(s) == \E i \in 1..Len(s) : SpanAt(s, i)

\* One pass over s from position i: a span that starts at the position is left
\* out up to its nearest end marker, any other character is kept.
RECURSIVE OnePass(_, _)
OnePass(s, i) ==
  IF i > Len(s) THEN <<>>
  ELSE IF SpanAt(s, i)
       THEN OnePass(s, (CHOOSE j \in SpanEnds(s, i) : \A k \in SpanEnds(s, i) : j <= k) + 8)
       ELSE <<s[i]>> \o OnePass(s, i + 1)

\* Without leading and trailing white space.
IsSpace(c) == c \in {" ", "\n", "\r", "\t"}
RECURSIVE Trimmed(_)
Trimmed(s) ==
  IF s = <<>> THEN s
  ELSE IF IsSpace(s[1]) THEN Trimmed(Tail(s))
       ELSE IF IsSpace(s[Len(s)]) THEN Trimmed(SubSeq(s, 1, Len(s) - 1))
            ELSE s

\* C19 as stated: with stripping requested the returned content holds no complete
\* thinking span; without it the content is returned unchanged.
C19_AsStated ==
  Answered =>
    /\ StripRequested => ~HasSpan(ReturnedContent)
    /\ ~StripRequested => ReturnedContent = AnswerContent

\* C19: with stripping requested the returned content is the message content
\* with every thinking span met in one pass from left to right removed, each
\* from its start marker to the nearest end marker, and then trimmed; what the
\* removals leave is not scanned again.  Without the request the content is
\* returned unchanged.
C19_StripThinking ==
  Answered =>
    /\ StripRequested => ReturnedContent = Trimmed(OnePass(AnswerContent, 1))
    /\ ~StripRequested => ReturnedContent = AnswerContent

\* "<think>internal</think>Final answer" gives "Final answer".
C19_Witness ==
  /\ Answered
  /\ StripRequested
  /\ AnswerContent =
       <<"<", "t", "h", "i", "n", "k", ">", "i", "n", "t", "e", "r", "n", "a", "l",
         "<", "/", "t", "h", "i", "n", "k", ">",
         "F", "i", "n", "a", "l", " ", "a", "n", "s", "w", "e", "r">>
  /\ ReturnedContent = <<"F", "i", "n", "a", "l", " ", "a", "n", "s", "w", "e", "r">>

\* C20: the returned text is the message content, stripped when that was
\* requested, followed for a non-empty citations list by a blank line, the line
\* "Citations:" and a line "[i] url" for each citation in the order of the list,
\* i counting from 1; without citations, or with an empty list, nothing follows
\* the content.  The stripping does not reach the block.
C20_CitationsBlock ==
  Answered =>
    result.text =
      (IF StripRequested THEN Trimmed(OnePass(AnswerContent, 1)) ELSE AnswerContent)
        \o CitationsBlock(AnswerCitations)

\* A stripped content followed by the block of two citations.
C20_Witness ==
  /\ Answered
  /\ StripRequested
  /\ HasSpan(AnswerContent)
  /\ AnswerCitations = <<<<"u">>, <<"v">>>>
  /\ result.text = <<"A", "\n", "\n", "C", "i", "t", "a", "t", "i", "o", "n", "s", ":", "\n",
                     "[", "1", "]", " ", "u", "\n", "[", "2", "]", " ", "v", "\n">>

-----------------------------------------------------------------------------
(* The claims about the outcome of a call *)

\* The errors a call is classified into.
ErrorKinds == {"InvalidInput", "InvalidArguments", "InvalidMessage", "ConfigError", "Timeout",
               "NetworkError", "UpstreamError", "MissingContent", "EmptyChoices",
               "ParseFailure"}

\* The call ended with a result text and no error; with an error and no text.
EndedWithResult == pc = "returned" /\ result.kind = "ok" /\ result.error = NoError
EndedWithError ==
  /\ pc = "thrown"
  /\ result.kind = "error"
  /\ result.error.kind \in ErrorKinds
  /\ result.text = <<>>

\* The text that a completion returns is that of a whole, validated response.
WholeResult ==
  tool \in ChatTools =>
    /\ response.json # JMissing
    /\ result.text =
         (IF StripRequested THEN Trimmed(OnePass(AnswerContent, 1)) ELSE AnswerContent)
           \o CitationsBlock(AnswerCitations)

\* C21: a call that is over ended either with a result text, which is the text of
\* the whole response, or with a classified error that carries no text, never
\* with both; a stream that failed after content was accumulated ended with the
\* parse failure of the reader's error, and no content is returned.
C21_OneOutcome ==
  /\ Over => (EndedWithResult /\ WholeResult) \/ EndedWithError
  /\ ~Over => result = NoResult
  /\ (pc = "thrown" /\ reads # <<>>) =>
       /\ result.text = <<>>
       /\ result.error.kind \in {"ParseFailure", "MissingContent", "EmptyChoices"}

\* The stream failed after two content deltas had been accumulated.
C21_Witness ==
  /\ pc = "thrown"
  /\ tool = "perplexity_research"
  /\ response.json = JMissing
  /\ acc.contentParts = <<<<"B">>, <<"A">>>>
  /\ result.error.kind = "ParseFailure"
  /\ result.error.cause \in Causes
  /\ result.text = <<>>

\* The errors a call throws before it sends anything.
BeforeDispatch == {"InvalidInput", "InvalidArguments", "InvalidMessage", "ConfigError"}

\* C22: one invocation sends at most one POST: none while it is idle or when it
\* failed before the dispatch, exactly one otherwise, and a call that ended with a
\* timeout, a network error, an upstream status or a schema error has sent one
\* request and no second one.
C22_NoRetry ==
  /\ posts \in {0, 1}
  /\ pc = "idle" => posts = 0
  /\ (pc = "thrown" /\ result.error.kind \in BeforeDispatch) => posts = 0
  /\ (pc = "thrown" /\ result.error.kind \notin BeforeDispatch) => posts = 1
  /\ pc \in {"fetching", "errorBody", "jsonBody", "streaming", "returned"} => posts = 1

C22_Witness ==
  /\ pc = "thrown"
  /\ tool = "perplexity_search"
  /\ result.error.kind = "NetworkError"
  /\ posts = 1

-----------------------------------------------------------------------------
(* The claims about the messages of a call *)

\* What is wrong with a message by the schema and the check of the handler
\* together: no object, a role outside the three roles, a content that is no
\* text; and, as the data contract has it, a content that is empty.
RoleNames == {<<"s", "y", "s", "t", "e", "m">>, <<"u", "s", "e", "r">>,
              <<"a", "s", "s", "i", "s", "t", "a", "n", "t">>}
WellFormedMessage(m) ==
  /\ m.t = "object"
  /\ m.role.t = "string" /\ m.role.v \in RoleNames
  /\ m.content.t = "string"
NonEmptyContent(m) == m.content.v # <<>>
IsMessageList(ms) == ms # Omitted /\ ms.v.t = "list"
Offending(ms) == {i \in 1..Len(ms.v.v) : ~WellFormedMessage(ms.v.v[i])}
FirstOffending(ms) == CHOOSE i \in Offending(ms) : \A j \in Offending(ms) : i <= j
MalformedMessages(ms) == ~IsMessageList(ms) \/ Offending(ms) # {}

\* The error of the check names the first message the check itself refuses.
RefusedByCheck(ms) ==
  {i \in 1..Len(ms.v.v) :
     \/ ms.v.v[i].t # "object"
     \/ ms.v.v[i].role.t # "string" \/ ms.v.v[i].role.v = <<>>
     \/ ms.v.v[i].content.t # "string"}
CheckNamesFirst ==
  IF ~IsMessageList(args.messages)
  THEN validateMessages(args.messages).kind = "InvalidArguments"
  ELSE IF RefusedByCheck(args.messages) = {}
       THEN validateMessages(args.messages) = NoError
       ELSE /\ validateMessages(args.messages).kind = "InvalidMessage"
            /\ \A i \in RefusedByCheck(args.messages) :
                 validateMessages(args.messages).index + 1 <= i
            /\ validateMessages(args.messages).index + 1 \in RefusedByCheck(args.messages)

RejectedBeforeDispatch ==
  /\ pc = "thrown"
  /\ posts = 0
  /\ result.error.kind \in {"InvalidInput", "InvalidArguments", "InvalidMessage"}
  /\ IsMessageList(args.messages) =>
       result.error.index = FirstOffending(args.messages) - 1

\* C23 as stated: a malformed list is refused before any request is sent, with
\* the index of its first offending message, and every message of a request that
\* was sent has one of the three roles and a non-empty text content.
C23_AsStated ==
  tool \in ChatTools =>
    /\ (Started /\ MalformedMessages(args.messages)) => RejectedBeforeDispatch
    /\ posts > 0 =>
         \A i \in 1..Len(body.messages) :
           WellFormedMessage(body.messages[i]) /\ NonEmptyContent(body.messages[i])

\* C23: a malformed list is refused before any request is sent, with the index
\* of its first offending message, and every message of a request that was sent
\* has one of the three roles and a text content, which may be empty.
C23_MessagesValidated ==
  tool \in ChatTools =>
    /\ (Started /\ MalformedMessages(args.messages)) => RejectedBeforeDispatch
    /\ CheckNamesFirst
    /\ posts > 0 =>
         /\ ~MalformedMessages(args.messages)
         /\ \A i \in 1..Len(body.messages) : WellFormedMessage(body.messages[i])

\* A list whose second message is the first at fault was refused with index 1.
C23_Witness ==
  /\ tool \in ChatTools
  /\ pc = "thrown"
  /\ posts = 0
  /\ IsMessageList(args.messages)
  /\ Len(args.messages.v.v) = 3
  /\ FirstOffending(args.messages) = 2
  /\ result.error.index = 1

-----------------------------------------------------------------------------
(* SpecConfig: the configuration a call reads, over calls of one process *)

MaxCalls == 2             \* calls made after the module loaded, at most

DefaultBaseUrl ==
  <<"h", "t", "t", "p", "s", ":", "/", "/", "a", "p", "i", ".", "p", "e", "r", "p",
    "l", "e", "x", "i", "t", "y", ".", "a", "i">>
CompletionsPath ==
  <<"/", "c", "h", "a", "t", "/", "c", "o", "m", "p", "l", "e", "t", "i", "o", "n", "s">>

\* process.env: each variable is Undefined or a text.
ProcessEnvs ==
  [PERPLEXITY_API_KEY : {Undefined, <<"k", "1">>, <<"k", "2">>},
   PERPLEXITY_BASE_URL : {Undefined, <<"b">>},
   PERPLEXITY_TIMEOUT_MS : {Undefined, <<"5", "0">>},
   PERPLEXITY_PROXY : {Undefined, <<>>, <<"p">>},
   HTTPS_PROXY : {Undefined, <<>>, <<"s">>},
   HTTP_PROXY : {Undefined, <<>>, <<"h">>}]

\* a || b for environment texts: a when it is set and not empty, b otherwise.
orElse(a, b) == IF Truthy(a) THEN a ELSE b

\* The constants of the module, evaluated once when it is loaded.
loadModule(e) ==
  [t |-> "constants",
   PERPLEXITY_API_KEY |-> e.PERPLEXITY_API_KEY,
   PERPLEXITY_BASE_URL |-> orElse(e.PERPLEXITY_BASE_URL, DefaultBaseUrl)]

\* A resolution that asks the generic variables before the search proxy.
getProxyUrl_GenericFirst(e) ==
  orElse(e.HTTPS_PROXY, orElse(e.HTTP_PROXY, orElse(e.PERPLEXITY_PROXY, Undefined)))
\* getProxyUrl(): Undefined for none.
getProxyUrl(e) ==
  orElse(e.PERPLEXITY_PROXY, orElse(e.HTTPS_PROXY, orElse(e.HTTP_PROXY, Undefined)))

\* What a call of performChatCompletion goes out with: the key and the URL from
\* the constants of the module, the timeout and the proxy from process.env.
ConfigFailure == [t |-> "thrown", error |-> ConfigError]
callConfig_DefaultTimeout(consts, e) ==
  IF ~Truthy(consts.PERPLEXITY_API_KEY) THEN ConfigFailure
  ELSE [t |-> "sent",
        authorization |-> consts.PERPLEXITY_API_KEY,
        url |-> consts.PERPLEXITY_BASE_URL \o CompletionsPath,
        timeoutMs |-> DefaultTimeoutMs,
        proxy |-> getProxyUrl(e),
        route |-> IF Truthy(getProxyUrl(e)) THEN "proxy" ELSE "direct"]
callConfig(consts, e) ==
  IF ~Truthy(consts.PERPLEXITY_API_KEY) THEN ConfigFailure
  ELSE [t |-> "sent",
        authorization |-> consts.PERPLEXITY_API_KEY,
        url |-> consts.PERPLEXITY_BASE_URL \o CompletionsPath,
        timeoutMs |-> parseInt(orElse(e.PERPLEXITY_TIMEOUT_MS, NumText(DefaultTimeoutMs))),
        proxy |-> getProxyUrl(e),
        route |-> IF Truthy(getProxyUrl(e)) THEN "proxy" ELSE "direct"]

InitConfig ==
  /\ filters = NoFilters
  /\ validator = "none"
  /\ verdict = Ok
  /\ tool = "perplexity_ask"
  /\ args = NoArgs
  /\ env \in ProcessEnvs
  /\ CallIdle
  /\ HttpIdle
  /\ loaded = loadModule(env)
  /\ calls = 0
  /\ dispatched = NoDispatch
  /\ invocations = <<>>
  /\ stripped = <<>>

\* Something in the process sets or unsets one variable of the environment.
SetEnv ==
  /\ \E name \in DOMAIN env :
       \E v \in {e[name] : e \in ProcessEnvs} \ {env[name]} :
         env' = [env EXCEPT ![name] = v]
  /\ UNCHANGED <<fvars, hvars, tool, args, pc, timeoutMs, body, posts, timer, aborted,
                 response, reads, acc, result, loaded, calls, dispatched, invocations,
                 stripped>>

\* A call reads its configuration and sends its request, or fails for the key.
CallWithConfig ==
  /\ calls < MaxCalls
  /\ calls' = calls + 1
  /\ dispatched' = callConfig(loaded, env)
  /\ UNCHANGED <<fvars, hvars, tool, args, env, pc, timeoutMs, body, posts, timer,
                 aborted, response, reads, acc, result, loaded, invocations, stripped>>

NextConfig == SetEnv \/ CallWithConfig

SpecConfig == InitConfig /\ [][NextConfig]_vars

-----------------------------------------------------------------------------
(* The claims about the configuration *)

\* The values of the environment as they are when a call is made.
SetText(v) == v # Undefined /\ v # <<>>
KeyNow == env.PERPLEXITY_API_KEY
BaseUrlNow ==
  IF SetText(env.PERPLEXITY_BASE_URL) THEN env.PERPLEXITY_BASE_URL ELSE DefaultBaseUrl
TimeoutNow ==
  IF env.PERPLEXITY_TIMEOUT_MS = <<"5", "0">> THEN 50 ELSE 300000
ProxyNow ==
  IF SetText(env.PERPLEXITY_PROXY) THEN env.PERPLEXITY_PROXY
  ELSE IF SetText(env.HTTPS_PROXY) THEN env.HTTPS_PROXY
       ELSE IF SetText(env.HTTP_PROXY) THEN env.HTTP_PROXY
            ELSE Undefined
CallMade == calls' = calls + 1
UsesTimeoutAndProxyNow ==
  dispatched'.t = "sent" =>
    /\ dispatched'.timeoutMs = TimeoutNow
    /\ dispatched'.proxy = ProxyNow
    /\ dispatched'.route = IF ProxyNow = Undefined THEN "direct" ELSE "proxy"

C25_ProxyResolution ==
  [][CallMade /\ dispatched'.t = "sent" =>
       LET candidates == <<env.PERPLEXITY_PROXY, env.HTTPS_PROXY, env.HTTP_PROXY>>
           nonEmpty == {i \in 1..3 : SetText(candidates[i])}
       IN /\ nonEmpty # {} =>
               \E i \in nonEmpty :
                 /\ \A j \in nonEmpty : i <= j
                 /\ dispatched'.proxy = candidates[i]
          /\ dispatched'.proxy = Undefined <=> nonEmpty = {}]_vars

\* A call made with the search-proxy variable empty, the HTTPS proxy variable
\* unset and the HTTP proxy variable set.
C25_Witness ==
  /\ calls > 0
  /\ dispatched.t = "sent"
  /\ env.PERPLEXITY_PROXY = <<>>
  /\ env.HTTPS_PROXY = Undefined
  /\ env.HTTP_PROXY = <<"h">>
  /\ dispatched.proxy = <<"h">>

-----------------------------------------------------------------------------
(* SpecConcurrent: two invocations of perplexity_research in flight at once *)

MaxStream == 2            \* chunks of one upstream stream, at most

InvocationIds == {1, 2}

\* What the upstream does with the request of one invocation: it answers later
\* than the timeout, the connection fails, or it answers with a status and, when
\* the status is ok, a stream of chunks that ends or breaks after them.
StreamChunks == {Line(<<"{", "A", "}">>), Line(<<"{", "B", "}">>) \o Line(DoneToken)}
RECURSIVE SeqsUpTo(_, _)
SeqsUpTo(S, n) ==
  IF n = 0 THEN {<<>>}
  ELSE SeqsUpTo(S, n - 1) \cup {Append(q, x) : q \in SeqsUpTo(S, n - 1), x \in S}
Upstreams ==
  [timing : {"late"}, status : {0}, chunks : {<<>>}, breaks : {FALSE}]
  \cup [timing : {"rejects"}, status : {0}, chunks : {<<>>}, breaks : {FALSE}]
  \cup [timing : {"responds"}, status : {500}, chunks : {<<>>}, breaks : {FALSE}]
  \cup [timing : {"responds"}, status : {200}, chunks : SeqsUpTo(StreamChunks, MaxStream),
        breaks : BOOLEAN]

\* An invocation before its handler ran: its arguments and the upstream it will meet.
NewInvocation(strip, upstream) ==
  [pc |-> "idle", strip_thinking |-> strip, upstream |-> upstream, timeoutMs |-> 0,
   timer |-> "none", aborted |-> FALSE, read |-> 0, acc |-> EmptyAcc, result |-> NoResult]

InitConcurrent ==
  /\ filters = NoFilters
  /\ validator = "none"
  /\ verdict = Ok
  /\ tool = "perplexity_research"
  /\ args = [NoArgs EXCEPT !.messages = Field(JList(<<UserMessage>>))]
  /\ env \in {e \in Environments : e.apiKey}
  /\ CallIdle
  /\ HttpIdle
  /\ loaded = NoConstants /\ calls = 0 /\ dispatched = NoDispatch /\ stripped = <<>>
  /\ invocations \in [InvocationIds -> {NewInvocation(strip, u) : strip \in BOOLEAN, u \in Upstreams}]

Others == <<fvars, hvars, tool, args, env, pc, timeoutMs, body, posts, timer, aborted,
            response, reads, acc, result, loaded, calls, dispatched, stripped>>

\* performChatCompletion of invocation i up to the await of fetch: its own
\* TIMEOUT_MS, its own AbortController and its own timer.
Invoke(i) ==
  /\ invocations[i].pc = "idle"
  /\ invocations' = [invocations EXCEPT ![i].timeoutMs = readTimeout(env),
                                        ![i].timer = "pending",
                                        ![i].pc = "fetching"]
  /\ UNCHANGED Others

\* A timer callback that aborts the requests of all the invocations in flight.
TimerOf_AbortsAll(i) ==
  /\ invocations[i].timer = "pending"
  /\ invocations[i].upstream.timing = "late"
  /\ invocations' = [j \in InvocationIds |->
                       IF j = i THEN [invocations[j] EXCEPT !.timer = "fired", !.aborted = TRUE]
                       ELSE IF invocations[j].pc = "fetching"
                            THEN [invocations[j] EXCEPT !.aborted = TRUE]
                            ELSE invocations[j]]
  /\ UNCHANGED Others

\* The callback of the timer of invocation i: controller.abort() on the
\* controller of the closure, which is the one of invocation i.
TimerOf(i) ==
  /\ invocations[i].timer = "pending"
  /\ invocations[i].upstream.timing = "late"
  /\ invocations' = [invocations EXCEPT ![i].timer = "fired", ![i].aborted = TRUE]
  /\ UNCHANGED Others

\* The fetch of invocation i settles: aborted, rejected or resolved; the timer of
\* the invocation is cleared; a status that is not ok has the error thrown.
FetchOf(i) ==
  LET inv == invocations[i] IN
  /\ inv.pc = "fetching"
  /\ IF inv.aborted
     THEN invocations' = [invocations EXCEPT
            ![i].timer = clearTimeout(inv.timer),
            ![i].pc = "thrown",
            ![i].result = Thrown(dispatchError(TRUE, inv.timeoutMs, AbortCause))]
     ELSE \/ /\ inv.upstream.timing = "rejects"
             /\ \E cause \in Causes :
                  invocations' = [invocations EXCEPT
                    ![i].timer = clearTimeout(inv.timer),
                    ![i].pc = "thrown",
                    ![i].result = Thrown(dispatchError(FALSE, inv.timeoutMs, cause))]
          \/ /\ inv.upstream.timing = "responds"
             /\ invocations' = [invocations EXCEPT
                  ![i].timer = clearTimeout(inv.timer),
                  ![i].pc = IF ok(inv.upstream.status) THEN "streaming" ELSE "thrown",
                  ![i].result = IF ok(inv.upstream.status) THEN NoResult
                                ELSE Thrown(UpstreamError(inv.upstream.status, <<>>, <<>>))]
  /\ UNCHANGED Others

\* One turn of the loop of consumeSSEStream of invocation i, on its own buffer and
\* contentParts: the next chunk, the end of the stream or its failure.
ReadOf(i) ==
  LET inv == invocations[i] IN
  /\ inv.pc = "streaming"
  /\ IF inv.read < Len(inv.upstream.chunks)
     THEN invocations' = [invocations EXCEPT
            ![i].acc = processChunk(inv.acc, inv.upstream.chunks[inv.read + 1]),
            ![i].read = inv.read + 1]
     ELSE IF inv.upstream.breaks
     THEN \E cause \in Causes :
            invocations' = [invocations EXCEPT
              ![i].pc = "thrown",
              ![i].result = Thrown(ParseFailure(cause))]
     ELSE invocations' = [invocations EXCEPT
            ![i].result = completionResult(assembled(inv.acc), inv.strip_thinking),
            ![i].pc = IF completionResult(assembled(inv.acc), inv.strip_thinking).kind = "ok"
                      THEN "returned" ELSE "thrown"]
  /\ UNCHANGED Others

NextConcurrent ==
  \E i \in InvocationIds : Invoke(i) \/ TimerOf(i) \/ FetchOf(i) \/ ReadOf(i)

SpecConcurrent == InitConcurrent /\ [][NextConcurrent]_vars

-----------------------------------------------------------------------------
(* The claim about concurrent invocations *)

\* What one invocation comes to when it runs alone, from its arguments, its
\* timeout and its upstream.
RECURSIVE AccumulatedAlone(_, _)
AccumulatedAlone(chunks, n) ==
  IF n = 0 THEN EmptyAcc ELSE processChunk(AccumulatedAlone(chunks, n - 1), chunks[n])
OutcomesAlone(strip, ms, upstream) ==
  CASE upstream.timing = "late" -> {Thrown(TimeoutError(ms))}
    [] upstream.timing = "rejects" -> {Thrown(NetworkError(cause)) : cause \in Causes}
    [] upstream.timing = "responds" /\ ~ok(upstream.status) ->
         {Thrown(UpstreamError(upstream.status, <<>>, <<>>))}
    [] upstream.timing = "responds" /\ ok(upstream.status) /\ upstream.breaks ->
         {Thrown(ParseFailure(cause)) : cause \in Causes}
    [] OTHER ->
         {completionResult(
            assembled(AccumulatedAlone(upstream.chunks, Len(upstream.chunks))), strip)}
Settled(i) == invocations[i].pc \in {"returned", "thrown"}

\* C26: each invocation ends as it would alone, in the outcome of its own
\* arguments, its own timeout and its own upstream, whatever the other invocation
\* does meanwhile; a request is aborted only by the timer of its own invocation,
\* and an accumulator holds only what its own stream delivered.
C26_NoInterference ==
  \A i \in DOMAIN invocations :
    LET inv == invocations[i] IN
    /\ Settled(i) => inv.result \in OutcomesAlone(inv.strip_thinking, inv.timeoutMs,
                                                  inv.upstream)
    /\ inv.aborted => inv.timer = "fired"
    /\ inv.acc = AccumulatedAlone(inv.upstream.chunks, inv.read)

\* Of two invocations, the first timed out, by its own timer, and the second
\* returned the text of the two chunks of its own stream, its timer cleared.
C26_Witness ==
  /\ DOMAIN invocations = InvocationIds
  /\ invocations[1].result = Thrown(TimeoutError(invocations[1].timeoutMs))
  /\ invocations[1].timer = "fired"
  /\ invocations[2].pc = "returned"
  /\ invocations[2].timer = "cleared"
  /\ invocations[2].read = 2
  /\ invocations[2].result.text # <<>>

-----------------------------------------------------------------------------
(* SpecToolCall: the tool-call handlers with a catch of their own: the       *)
(* CallToolRequestSchema handler of the earlier generations and POST         *)
(* /mcp/call of the search server                                            *)

NoArguments == [NoError EXCEPT !.kind = "NoArguments"]

\* The responses of the CallToolRequestSchema handler: {content: [{type: "text",
\* text}], isError}.  "toolResult" has isError false and the text of the result,
\* "toolError" has isError true and the text "Unknown tool: <name>" or "Error: "
\* and the message of the Error in error.
ToolResult(text) == [NoReplyFields EXCEPT !.kind = "toolResult", !.text = text]
UnknownTool == [NoReplyFields EXCEPT !.kind = "toolError", !.message = "Unknown tool"]
ToolError(err) ==
  [NoReplyFields EXCEPT !.kind = "toolError", !.message = "thrown", !.error = err]
Escaped(err) ==
  [NoReplyFields EXCEPT !.kind = "escaped", !.message = "thrown", !.error = err]

\* A handler whose catch lets the errors of the network through.
toolReply_NetworkEscapes(outcome) ==
  IF outcome.kind = "ok" THEN ToolResult(outcome.text)
  ELSE IF outcome.error.kind = "NetworkError" THEN Escaped(outcome.error)
  ELSE ToolError(outcome.error)

\* The end of the handler: the return of the case, or the return of the catch.
toolReply(outcome) ==
  IF outcome.kind = "ok" THEN ToolResult(outcome.text) ELSE ToolError(outcome.error)

\* data.choices[0].message.content of a body that parsed as JSON: a TypeError
\* for a step through what is no object, else the content, a text or not.
legacyContent(json) ==
  IF CompletionIssues(json) = {} THEN Returned(json.choices.v[1].message.content.v)
  ELSE IF CompletionIssues(json) = {<<"choices", "0", "message", "content">>}
  THEN Returned(Undefined)
  ELSE Thrown(TypeError)

\* What performChatCompletion of the earlier generations makes of the body.
legacyCompletion(json) ==
  IF json = JUnparseable THEN Thrown(ParseFailure(SyntaxCause))
  ELSE IF legacyContent(json).kind # "ok" THEN legacyContent(json)
  ELSE IF json.citations.t = "list" /\ Len(json.citations.v) > 0
  THEN Returned(legacyContent(json).text \o CitationsHeader
                  \o citationLines(json.citations.v, 1))
  ELSE legacyContent(json)

(* The inputs *)

LegacyTools == ChatTools \cup {"other"}
LegacyArgs ==
  {[NoArgs EXCEPT !.messages = m] :
     m \in {Omitted, Field(JNonList), Field(JList(<<UserMessage>>))}}
LegacyFilters ==
  {NoFilters, [NoFilters EXCEPT !.search_after_date_filter = Date_13_1_2025],
   [NoFilters EXCEPT !.search_after_date_filter = Date_3_1_2025,
                     !.search_recency_filter = <<"d", "a", "y">>]}
ToolCalls == [t : {"toolcall"}, hasArgs : BOOLEAN]
LegacyBodies ==
  {JUnparseable, JNonObject}
    \cup {JCompletion(ch, ci, FALSE) : ch \in ChoicesSample,
                                       ci \in {JMissing, JList(<<<<"u">>, <<"v">>>>)}}

InitLegacy ==
  /\ filters \in LegacyFilters
  /\ validator = "none"
  /\ verdict = Ok
  /\ tool \in LegacyTools
  /\ args \in LegacyArgs
  /\ env = [apiKey |-> TRUE, timeout |-> Undefined]
  /\ CallIdle
  /\ request \in ToolCalls
  /\ reply = NoReply
  /\ ConfigIdle

\* The handler ends with a response.
Responds(outcome) ==
  /\ result' = outcome
  /\ reply' = toolReply(outcome)
  /\ pc' = "replied"

\* The CallToolRequestSchema handler up to the await of fetch: the arguments,
\* the name of the tool, the messages, then performChatCompletion, which
\* validates the filters and issues the POST.
CallTool ==
  /\ pc = "idle"
  /\ request.t = "toolcall"
  /\ IF ~request.hasArgs
     THEN Responds(Thrown(NoArguments)) /\ UNCHANGED <<validator, verdict, posts>>
     ELSE IF tool \notin ChatTools
     THEN /\ reply' = UnknownTool
          /\ pc' = "replied"
          /\ UNCHANGED <<validator, verdict, posts, result>>
     ELSE IF args.messages = Omitted \/ args.messages.v.t # "list"
     THEN Responds(Thrown(MessagesNotArray)) /\ UNCHANGED <<validator, verdict, posts>>
     ELSE /\ validator' = "validateFilters"
          /\ verdict' = validateFilters(filters)
          /\ IF validateFilters(filters) # Ok
             THEN Responds(Thrown(validateFilters(filters))) /\ UNCHANGED posts
             ELSE /\ posts' = posts + 1
                  /\ pc' = "fetching"
                  /\ UNCHANGED <<reply, result>>
  /\ UNCHANGED <<filters, evars, tool, args, env, timeoutMs, body, timer, aborted, response,
                 reads, acc, request>>

\* fetch resolves with the response head, or rejects.
ToolFetch ==
  /\ pc = "fetching"
  /\ request.t = "toolcall"
  /\ \/ \E status \in StatusSample, statusText \in StatusTexts :
          /\ response' = ResponseHead(status, statusText)
          /\ pc' = IF ok(status) THEN "jsonBody" ELSE "errorBody"
          /\ UNCHANGED <<reply, result>>
     \/ \E cause \in Causes :
          /\ Responds(Thrown(NetworkError(cause)))
          /\ UNCHANGED response
  /\ UNCHANGED <<fvars, evars, tool, args, env, timeoutMs, body, posts, timer, aborted,
                 reads, acc, request>>

\* The body is read: the text of an error status, or the JSON of the completion.
ToolReadBody ==
  /\ request.t = "toolcall"
  /\ \/ /\ pc = "errorBody"
        /\ \E readOk \in BOOLEAN, text \in ErrorTexts :
             /\ response' = [response EXCEPT !.bodyRead = IF readOk THEN "ok" ELSE "failed"]
             /\ Responds(Thrown(UpstreamError(response.status, response.statusText,
                                              IF readOk THEN text ELSE UnableToParse)))
     \/ /\ pc = "jsonBody"
        /\ \E json \in LegacyBodies :
             /\ response' = [response EXCEPT !.json = json]
             /\ Responds(legacyCompletion(json))
  /\ UNCHANGED <<fvars, evars, tool, args, env, timeoutMs, body, posts, timer, aborted,
                 reads, acc, request>>

\* The server takes the next call.
ServeNext ==
  /\ pc = "replied"
  /\ request.t = "toolcall"
  /\ reply.kind # "escaped"
  /\ calls < MaxCalls
  /\ calls' = calls + 1
  /\ \E f \in LegacyFilters, t \in LegacyTools, a \in LegacyArgs, r \in ToolCalls :
       /\ filters' = f
       /\ tool' = t
       /\ args' = a
       /\ request' = r
  /\ validator' = "none"
  /\ verdict' = Ok
  /\ pc' = "idle"
  /\ posts' = 0
  /\ response' = NoResponse
  /\ result' = NoResult
  /\ reply' = NoReply
  /\ UNCHANGED <<env, timeoutMs, body, timer, aborted, reads, acc, loaded, dispatched,
                 invocations, stripped>>

NextLegacy == CallTool \/ ToolFetch \/ ToolReadBody \/ ServeNext

InitToolCall == InitLegacy \/ InitSearchServer
NextToolCall == NextLegacy \/ NextSearchServer
SpecToolCall == InitToolCall /\ [][NextToolCall]_vars

-----------------------------------------------------------------------------
(* The claim about the tool-call handlers *)

\* A call that reached a tool-call handler, and what it asked for.
HandlerReached ==
  \/ request.t = "toolcall"
  \/ request.t = "request" /\ request.route = "/mcp/call" /\ basicAuth(request.auth) = "pass"
KnownNames == IF request.t = "toolcall" THEN ChatTools ELSE {"perplexity-search"}
ArgumentsMissing == ~request.hasArgs
NameUnknown == tool \notin KnownNames
ErrorThrown == result.kind = "error"
\* isError: true, isError: false
FlaggedError(r) == r.kind \in {"toolError", "error"}
FlaggedResult(r) == r.kind \in {"toolResult", "content"}

\* C27: a call that reached a tool-call handler and is over has a response, flagged
\* as an error or as a result, and no exception left the handler; the response
\* is flagged as an error when the arguments were missing, when the name of the
\* tool is unknown and when an error was thrown, for the arguments, the filters,
\* the network, the status or the body of the upstream response, and then it
\* carries the message of that error; a response flagged as a result carries
\* the text that was returned.  The server goes on to take the next call.
C27_ErrorsBecomeResponses ==
  /\ reply.kind # "escaped"
  /\ HandlerReached /\ pc = "replied" =>
       /\ FlaggedError(reply) \/ FlaggedResult(reply)
       /\ ArgumentsMissing \/ NameUnknown \/ ErrorThrown => FlaggedError(reply)
       /\ ErrorThrown => reply.message = "thrown" /\ reply.error = result.error
       /\ FlaggedResult(reply) => result.kind = "ok" /\ reply.text = result.text
       /\ request.t = "toolcall" /\ calls < MaxCalls => ENABLED ServeNext

\* A later call of the handler, the upstream answering it with an error status:
\* the response is flagged as an error and carries the status error.
C27_Witness ==
  /\ request.t = "toolcall"
  /\ calls = 1
  /\ pc = "replied"
  /\ result.kind = "error"
  /\ result.error.kind = "UpstreamError"
  /\ result.error.status = 500
  /\ reply = ToolError(result.error)

-----------------------------------------------------------------------------
(* The claim about the authentication of the search server *)

\* The Authorization header names the Basic scheme and its credentials are the
\* user, a colon and the password the server was started with.
ValidCredentials(header) ==
  /\ header # NoAuthHeader
  /\ header.scheme = "Basic"
  /\ header.credentials = McpUser \o <<":">> \o McpPass
Answered401 == reply.status = 401 /\ reply.kind = "authError"

\* C28 as stated: a request to the search server without valid credentials is
\* answered 401 and no search is dispatched for it, on every route but /health,
\* and /health answers whatever the credentials.
C28_AsStated ==
  request.t = "request" /\ pc # "idle" =>
    /\ request.route # "/health" /\ ~ValidCredentials(request.auth) =>
         Answered401 /\ posts = 0
    /\ request.route = "/health" => reply = InfoReply("/health")

\* POST /mcp/call with the credentials u:p:z, the password being p: the search
\* is dispatched.  (GET / with no Authorization header is answered 200 as well.)
C28_Witness ==
  /\ request.t = "request"
  /\ request.route = "/mcp/call"
  /\ request.auth = AuthHeader("Basic", <<"u", ":", "p", ":", "z">>)
  /\ ~ValidCredentials(request.auth)
  /\ posts = 1
  /\ pc = "replied"
  /\ reply.status = 200

-----------------------------------------------------------------------------
(* The claim about the end of the stream *)

\* The text after the last newline of the stream, and the object it would be
\* parsed to were it a line.
UnendedTail == LET pieces == splitOn(StreamText, "\n") IN pieces[Len(pieces)]
TailObject == ObjectOf(PayloadOf(UnendedTail))
\* The value of a key of the assembled response, Omitted when it has not the key.
KeyOf(json, f) ==
  IF f = "citations"
  THEN (IF json.citations = JMissing THEN Omitted ELSE Field(json.citations.v))
  ELSE json[f]

\* C29: when the stream ends on a data line that no newline ended, the assembled
\* response is that of the lines before it: its content is the deltas of the ended
\* lines alone, and each of id, model, created, citations and usage is the last
\* truthy value the ended lines carried, absent when they carried none; the text
\* returned without stripping is that content and the block of those citations.
C29_TailDropped ==
  StreamAssembled /\ TailObject # NoChunkFields =>
    /\ response.json.choices.v[1].message.content
         = JString(AllDeltas(EndedLines(StreamText)))
    /\ \A f \in MetaFields :
         KeyOf(response.json, f) = LastCarriedTruthy(ParsedObjects(EndedLines(StreamText)), f)
    /\ result.kind = "ok"
    /\ ~StripRequested =>
         result.text = AllDeltas(EndedLines(StreamText)) \o CitationsBlock(
           IF LastCarriedTruthy(ParsedObjects(EndedLines(StreamText)), "citations") = Omitted
           THEN <<>>
           ELSE LastCarriedTruthy(ParsedObjects(EndedLines(StreamText)), "citations").v)

\* The stream ended after an ended line with content A and an unended line with
\* content C, an id and citations: the response holds A, no id and no citations.
C29_Witness ==
  /\ StreamAssembled
  /\ reads = <<Line(<<"{", "A", "}">>), DataMarker \o <<" ", "{", "N", "}">>>>
  /\ TailObject.content = Field(<<"C">>)
  /\ response.json.choices.v[1].message.content = JString(<<"A">>)
  /\ response.json.id = Omitted
  /\ response.json.citations = JMissing
  /\ result.text = <<"A">>

-----------------------------------------------------------------------------
(* SpecStrip: stripThinkingTokens applied to a content, and to its own result *)

MaxPieces == 4            \* pieces a content is put together from, at most

\* The pieces: the markers, the halves of a start marker, a whole span, text and
\* white space.
ContentPieces ==
  {ThinkOpen, ThinkClose, <<"<", "t", "h">>, <<"i", "n", "k", ">">>,
   ThinkOpen \o <<"x">> \o ThinkClose, <<"y">>, <<" ">>}
Contents == {Concat(q) : q \in SeqsUpTo(ContentPieces, MaxPieces)}

InitStrip ==
  /\ filters = NoFilters
  /\ validator = "none"
  /\ verdict = Ok
  /\ tool = "perplexity_reason"
  /\ args = NoArgs
  /\ env = [apiKey |-> TRUE, timeout |-> Undefined]
  /\ CallIdle
  /\ HttpIdle
  /\ loaded = NoConstants /\ calls = 0 /\ dispatched = NoDispatch /\ invocations = <<>>
  /\ \E content \in Contents : stripped = <<content>>

\* stripThinkingTokens applied to the latest text.
Strip ==
  /\ Len(stripped) \in 1..2
  /\ stripped' = Append(stripped, stripThinkingTokens(stripped[Len(stripped)]))
  /\ UNCHANGED <<fvars, hvars, tool, args, env, pc, timeoutMs, body, posts, timer, aborted,
                 response, reads, acc, result, loaded, calls, dispatched, invocations>>

NextStrip == Strip

SpecStrip == InitStrip /\ [][NextStrip]_vars

-----------------------------------------------------------------------------
(* The claim about stripping twice *)

StrippedTwice == Len(stripped) = 3
\* The start markers of a text that no end marker follows.
Unmatched(s) == {i \in 1..Len(s) : OpensAt(s, i) /\ SpanEnds(s, i) = {}}
IsSuffix(s, t) == Len(s) <= Len(t) /\ SubSeq(t, Len(t) - Len(s) + 1, Len(t)) = s
RECURSIVE WithoutSpaceAtEnd(_)
WithoutSpaceAtEnd(s) ==
  IF s # <<>> /\ IsSpace(s[Len(s)]) THEN WithoutSpaceAtEnd(SubSeq(s, 1, Len(s) - 1)) ELSE s

\* C30 as stated: stripping the stripped text gives the same text, for every content.
C30_AsStated == StrippedTwice => stripped[3] = stripped[2]

\* C30: stripping the stripped text gives the same text whenever the stripped text
\* holds no thinking span (the removal of a span can bring the pieces of a marker
\* together, and then the second stripping removes the span they make); a start
\* marker that no end marker follows is left in place with all the text behind
\* it, but for the white space at the very end.
C30_StripTwice ==
  /\ StrippedTwice /\ ~HasSpan(stripped[2]) => stripped[3] = stripped[2]
  /\ Len(stripped) >= 2 =>
       \A i \in Unmatched(stripped[1]) :
         IsSuffix(WithoutSpaceAtEnd(SubSeq(stripped[1], i, Len(stripped[1]))), stripped[2])

\* A span was removed in front of a start marker that no end marker follows: the
\* marker and the text behind it are what is left, and stripping again changes nothing.
C30_Witness ==
  /\ StrippedTwice
  /\ stripped[1] = ThinkOpen \o <<"x">> \o ThinkClose \o ThinkOpen \o <<"y">> \o <<" ">>
  /\ stripped[2] = ThinkOpen \o <<"y">>
  /\ stripped[3] = stripped[2]

=============================================================================
